---------------------------- MODULE Spec2Model ----------------------------
(***************************************************************************)
(* Risk-managed portfolio simulator of the trading system:                 *)
(*   RiskManager    (src/trading_core/risk_manager.py)                     *)
(*   BacktestEngine (src/trading_core/backtesting_engine.py)               *)
(*   BaseStrategy   (src/trading_core/strategy_framework.py)               *)
(*   TradingConfig / InstrumentConfig (src/config/config.py)               *)
(*                                                                         *)
(* Units.  A price of an instrument is an integer number of that           *)
(* instrument's ticks (futures: tick_size) or pips (forex: pip_value), so  *)
(* price_diff / tick_size and price_diff / pip_value are the integer       *)
(* difference of two prices.  Money is an integer number of 1/MoneyScale   *)
(* dollars: the forex P&L of risk_manager.py:196, pips * 10 * size/100000, *)
(* is then exactly pips * size.  Arithmetic is exact (the code computes in *)
(* binary floating point; rounding error is not modelled).                 *)
(* Wall-clock fields (entry_time, exit_time = datetime.now()) are left out *)
(* of the position and trade records.                                      *)
(***************************************************************************)
EXTENDS Integers, Sequences, FiniteSets, TLC

----------------------------------------------------------------------------
(* Configuration: src/config/config.py *)

MoneyScale == 10000

MAX_DRAWDOWN_USD == 1500

MAX_POSITIONS == 6

RiskDivisor == 400

FUTURES_SYMBOLS == {"ES", "NQ", "YM"}

FOREX_SYMBOLS == {"AUDUSD", "EURUSD", "GBPUSD"}

\* tick_value of FUTURES_SPECS, in money units per tick per contract
TickValue(symbol) ==
    CASE symbol = "ES" -> 125000
      [] symbol = "NQ" -> 50000
      [] symbol = "YM" -> 50000

\* margin_requirement of FUTURES_SPECS, in dollars per contract
MarginRequirement(symbol) ==
    CASE symbol = "ES" -> 13200
      [] symbol = "NQ" -> 17600
      [] symbol = "YM" -> 8800

\* RiskManager(initial_capital = 100000)
InitialCapital == 100000 * MoneyScale

\* take_profit: Optional[float] = None
NoTakeProfit == -1

----------------------------------------------------------------------------
(* Bounds of the model *)

\* closes recorded in trade_history
MaxTrades == 2

\* largest position size offered to add_position
MaxSize == 2

\* RiskManager calls made by a client in one run
MaxCalls == 5

\* RiskManager calls made by the client that fills the position table
MaxSlotCalls == 7

\* symbols with no entry in FUTURES_SPECS / FOREX_SPECS (a caller may pass any string)
OTHER_SYMBOLS == {"CL", "GC", "SI"}

Symbols == FUTURES_SYMBOLS \cup FOREX_SYMBOLS \cup OTHER_SYMBOLS

\* symbols the client of Spec trades: one future, one forex pair
TradedSymbols == {"ES", "EURUSD"}

\* prices on the tick / pip grid
Prices == {40, 100, 160}

\* symbols with data in the backtest
BTSymbols == {"ES", "EURUSD"}

\* closes of the bars of the backtest
BTPrices == {90, 110}

\* (risk, reward) distances of calculate_entry_exit: the stop is risk away from
\* the entry against the direction, the target reward away with it.  A negative
\* risk is a stop on the profit side of the entry (ict_strategy.py:242: the
\* Bollinger band beyond the close), a risk of 0 a stop at the entry (ATR of 0).
Brackets == { <<20, 20>>, <<-20, -20>>, <<20, NoTakeProfit>>, <<0, 0>> }

\* timestamps of the merged index
MaxT == 21

\* signals a strategy returns for one timestamp
MaxSignals == 2

\* len(current_slice) >= 20
MinBars == 20

\* standard_lot: forex sizes are given in units, futures sizes in contracts
SizeUnit(symbol) == IF symbol \in FOREX_SYMBOLS THEN 100000 ELSE 1

\* (direction, stop_loss, take_profit) of the orders a client places at entry 100
Orders == { <<"LONG", 40, 160>>, <<"SHORT", 160, NoTakeProfit>> }

Directions == {"LONG", "SHORT"}

Reasons == {"MANUAL", "STOP_LOSS"}

----------------------------------------------------------------------------
(* State *)

VARIABLES
    positions,        \* RiskManager.positions: dict symbol -> position
    current_capital,  \* RiskManager.current_capital
    trade_history,    \* RiskManager.trade_history: list of trade records
    last,             \* the last RiskManager call and what it returned
    calls_left,       \* calls the client may still make
    pc,               \* _simulate_trading: where the loop body stands
    ts,               \* _simulate_trading: the current timestamp (index into timestamps)
    first_bar,        \* all_data: the first timestamp of each symbol's frame
    gap,              \* all_data: a timestamp missing from each symbol's frame (0: none)
    current_data,     \* symbols with a usable slice at ts
    close,            \* current_data[symbol].iloc[-1]['close']
    todo,             \* symbols of list(positions.keys()) still to manage at ts
    signals,          \* valid signals of execute_strategy still to process at ts
    equity_history,   \* _simulate_trading: equity_history
    trade_log,        \* _simulate_trading: trade_log
    closed_now        \* history: symbols whose position was closed at ts

rmVars == <<positions, current_capital, trade_history>>

clientVars == <<last, calls_left>>

btVars == <<pc, ts, first_bar, gap, current_data, close, todo, signals,
            equity_history, trade_log, closed_now>>

vars == <<positions, current_capital, trade_history, last, calls_left,
          pc, ts, first_bar, gap, current_data, close, todo, signals,
          equity_history, trade_log, closed_now>>

----------------------------------------------------------------------------
(* Arithmetic helpers *)

Abs(x) == IF x < 0 THEN -x ELSE x

\* Python int(): truncation toward zero of the quotient a / b, b > 0
TruncDiv(a, b) == IF a >= 0 THEN a \div b ELSE -((-a) \div b)

\* floor(a * b / c) for a >= 0, b >= 0, c > 0 without forming a * b
MulDivFloor(a, b, c) == (a \div c) * b + ((a % c) * b) \div c

\* floor(a * b / c) for any a, b >= 0, c > 0
MulDivFloorSigned(a, b, c) ==
    IF a >= 0 THEN MulDivFloor(a, b, c)
    ELSE -(MulDivFloor(-a, b, c) + (IF (((-a) % c) * b) % c = 0 THEN 0 ELSE 1))

\* no size: the marker of a lookup that raised
NoSize == -1000000000

RECURSIVE SumPnl(_)
SumPnl(trades) ==
    IF trades = <<>> THEN 0
    ELSE trades[1].realized_pnl + SumPnl(Tail(trades))

RECURSIVE SumUnrealized(_, _)
SumUnrealized(P, S) ==
    IF S = {} THEN 0
    ELSE LET s == CHOOSE x \in S : TRUE
         IN  P[s].unrealized_pnl + SumUnrealized(P, S \ {s})

----------------------------------------------------------------------------
(* RiskManager: pure parts.  P is a positions table (a function whose      *)
(* domain is the set of symbols with an open position).                    *)

\* mutant: the class cap of the configuration comment (3 futures + 3 forex)
check_correlation_limits_three(P, symbol) ==
    \/ /\ symbol \in FUTURES_SYMBOLS
       /\ Cardinality({s \in DOMAIN P : s \in FUTURES_SYMBOLS}) >= 3
    \/ /\ symbol \in FOREX_SYMBOLS
       /\ Cardinality({s \in DOMAIN P : s \in FOREX_SYMBOLS}) >= 3

\* _check_correlation_limits: TRUE when the class of symbol is already full
check_correlation_limits(P, symbol) ==
    \/ /\ symbol \in FUTURES_SYMBOLS
       /\ Cardinality({s \in DOMAIN P : s \in FUTURES_SYMBOLS}) >= 2
    \/ /\ symbol \in FOREX_SYMBOLS
       /\ Cardinality({s \in DOMAIN P : s \in FOREX_SYMBOLS}) >= 2

\* mutant: the positions limit compared with > instead of >=
check_risk_limits_off_by_one(P, capital, symbol, position_size, entry_price) ==
    IF Cardinality(DOMAIN P) > MAX_POSITIONS THEN FALSE
    ELSE IF symbol \in DOMAIN P THEN FALSE
    ELSE IF InitialCapital - capital >= MAX_DRAWDOWN_USD * MoneyScale THEN FALSE
    ELSE IF check_correlation_limits(P, symbol) THEN FALSE
    ELSE IF position_size <= 0 THEN FALSE
    ELSE TRUE

\* mutant: no check for an existing position in the symbol
check_risk_limits_no_duplicate_check(P, capital, symbol, position_size, entry_price) ==
    IF Cardinality(DOMAIN P) >= MAX_POSITIONS THEN FALSE
    ELSE IF InitialCapital - capital >= MAX_DRAWDOWN_USD * MoneyScale THEN FALSE
    ELSE IF check_correlation_limits(P, symbol) THEN FALSE
    ELSE IF position_size <= 0 THEN FALSE
    ELSE TRUE

check_risk_limits(P, capital, symbol, position_size, entry_price) ==
    IF Cardinality(DOMAIN P) >= MAX_POSITIONS THEN FALSE
    ELSE IF symbol \in DOMAIN P THEN FALSE
    ELSE IF InitialCapital - capital >= MAX_DRAWDOWN_USD * MoneyScale THEN FALSE
    ELSE IF check_correlation_limits(P, symbol) THEN FALSE
    ELSE IF position_size <= 0 THEN FALSE
    ELSE TRUE

NewPosition(symbol, position_size, entry_price, stop_loss, take_profit, direction) ==
    [ symbol         |-> symbol,
      size           |-> position_size,
      direction      |-> direction,
      entry_price    |-> entry_price,
      stop_loss      |-> stop_loss,
      take_profit    |-> take_profit,
      unrealized_pnl |-> 0,
      max_favorable  |-> 0,
      max_adverse    |-> 0 ]

\* add_position: the positions table afterwards
add_position(P, capital, symbol, position_size, entry_price, stop_loss, take_profit, direction) ==
    IF ~ check_risk_limits(P, capital, symbol, position_size, entry_price)
    THEN P
    ELSE [s \in DOMAIN P \cup {symbol} |->
            IF s = symbol
            THEN NewPosition(symbol, position_size, entry_price, stop_loss,
                             take_profit, direction)
            ELSE P[s]]

\* update_position_pnl raises KeyError: FOREX_SPECS[symbol] of a symbol in neither table
UpdateRaises(P, symbol) ==
    /\ symbol \in DOMAIN P
    /\ symbol \notin FUTURES_SYMBOLS
    /\ symbol \notin FOREX_SYMBOLS

UnrealizedPnl(pos, current_price) ==
    LET diff       == current_price - pos.entry_price
        price_diff == IF pos.direction = "SHORT" THEN -diff ELSE diff
    IN  IF pos.symbol \in FUTURES_SYMBOLS
        THEN price_diff * TickValue(pos.symbol) * pos.size
        ELSE price_diff * pos.size

\* mutant: the mark leaves the excursions as they were
update_position_pnl_no_excursions(P, symbol, current_price) ==
    IF symbol \notin DOMAIN P THEN P
    ELSE LET pos == P[symbol]
             pnl == UnrealizedPnl(pos, current_price)
         IN  [P EXCEPT ![symbol] = [pos EXCEPT !.unrealized_pnl = pnl]]

\* update_position_pnl: the positions table afterwards (symbol priced in a specs table)
update_position_pnl(P, symbol, current_price) ==
    IF symbol \notin DOMAIN P THEN P
    ELSE LET pos == P[symbol]
             pnl == UnrealizedPnl(pos, current_price)
         IN  [P EXCEPT ![symbol] =
                [pos EXCEPT !.unrealized_pnl = pnl,
                            !.max_favorable  = IF pnl > pos.max_favorable
                                               THEN pnl ELSE pos.max_favorable,
                            !.max_adverse    = IF pnl < pos.max_adverse
                                               THEN pnl ELSE pos.max_adverse]]

\* mutant: a close exactly at the stop does not trigger it
check_stop_loss_exclusive(P, symbol, current_price) ==
    IF symbol \notin DOMAIN P THEN FALSE
    ELSE LET pos == P[symbol]
         IN  IF pos.direction = "LONG" /\ current_price < pos.stop_loss THEN TRUE
             ELSE IF pos.direction = "SHORT" /\ current_price > pos.stop_loss THEN TRUE
             ELSE FALSE

check_stop_loss(P, symbol, current_price) ==
    IF symbol \notin DOMAIN P THEN FALSE
    ELSE LET pos == P[symbol]
         IN  IF pos.direction = "LONG" /\ current_price <= pos.stop_loss THEN TRUE
             ELSE IF pos.direction = "SHORT" /\ current_price >= pos.stop_loss THEN TRUE
             ELSE FALSE

check_take_profit(P, symbol, current_price) ==
    IF symbol \notin DOMAIN P THEN FALSE
    ELSE LET pos == P[symbol]
         IN  IF pos.take_profit = NoTakeProfit THEN FALSE
             ELSE IF pos.direction = "LONG" /\ current_price >= pos.take_profit THEN TRUE
             ELSE IF pos.direction = "SHORT" /\ current_price <= pos.take_profit THEN TRUE
             ELSE FALSE

TradeRecord(pos, exit_price, reason) ==
    [ symbol        |-> pos.symbol,
      direction     |-> pos.direction,
      size          |-> pos.size,
      entry_price   |-> pos.entry_price,
      exit_price    |-> exit_price,
      realized_pnl  |-> pos.unrealized_pnl,
      max_favorable |-> pos.max_favorable,
      max_adverse   |-> pos.max_adverse,
      exit_reason   |-> reason ]

\* mutant: capital takes the P&L of the last mark, not of the exit price
close_position_stale_pnl(P, capital, history, symbol, exit_price, reason) ==
    IF symbol \notin DOMAIN P
    THEN [positions |-> P, current_capital |-> capital, trade_history |-> history]
    ELSE LET Q        == update_position_pnl(P, symbol, exit_price)
             position == Q[symbol]
         IN  [ positions       |-> [s \in DOMAIN Q \ {symbol} |-> Q[s]],
               current_capital |-> capital + P[symbol].unrealized_pnl,
               trade_history   |-> Append(history,
                                          TradeRecord(position, exit_price, reason)) ]

\* close_position of an open, priced symbol: positions, capital and history afterwards
close_position(P, capital, history, symbol, exit_price, reason) ==
    IF symbol \notin DOMAIN P
    THEN [positions |-> P, current_capital |-> capital, trade_history |-> history]
    ELSE LET Q        == update_position_pnl(P, symbol, exit_price)
             position == Q[symbol]
         IN  [ positions       |-> [s \in DOMAIN Q \ {symbol} |-> Q[s]],
               current_capital |-> capital + position.unrealized_pnl,
               trade_history   |-> Append(history,
                                          TradeRecord(position, exit_price, reason)) ]

\* lines 28-75: the size before the final max(0, position_size); NoSize when
\* the lookup of the symbol's specification raises KeyError
UnclampedSize(symbol, entry_price, stop_loss, account_balance) ==
    LET price_diff == Abs(entry_price - stop_loss)
    IN  IF symbol \in FUTURES_SYMBOLS
        THEN LET risk_per_contract == price_diff * TickValue(symbol)
                 \* int(risk_amount / risk_per_contract), risk_amount = balance / 400
                 sized  == TruncDiv(TruncDiv(account_balance, RiskDivisor),
                                    risk_per_contract)
                 margin == MarginRequirement(symbol)
                 \* margin_required > account_balance * 0.3, both sides in dollars * 10
                 over   == sized * margin * 10 >
                               MulDivFloorSigned(account_balance, 3, MoneyScale)
                 \* int((account_balance * 0.3) / margin_requirement)
                 capped == IF account_balance >= 0
                           THEN MulDivFloor(account_balance, 3, MoneyScale)
                                    \div (10 * margin)
                           ELSE -(MulDivFloor(-account_balance, 3, MoneyScale)
                                    \div (10 * margin))
             IN  IF over THEN capped ELSE sized
        ELSE IF symbol \in FOREX_SYMBOLS
        THEN TruncDiv(TruncDiv(account_balance, RiskDivisor), price_diff)
        ELSE NoSize

\* mutant: the size is returned without max(0, position_size)
calculate_position_size_unclamped(symbol, entry_price, stop_loss, account_balance) ==
    IF entry_price = stop_loss THEN 0
    ELSE LET position_size == UnclampedSize(symbol, entry_price, stop_loss,
                                            account_balance)
         IN  IF position_size = NoSize THEN 0   \* KeyError caught by the except clause
             ELSE position_size

\* calculate_position_size
calculate_position_size(symbol, entry_price, stop_loss, account_balance) ==
    IF entry_price = stop_loss THEN 0
    ELSE LET position_size == UnclampedSize(symbol, entry_price, stop_loss,
                                            account_balance)
         IN  IF position_size = NoSize THEN 0   \* KeyError caught by the except clause
             ELSE IF position_size > 0 THEN position_size ELSE 0

\* mutant: total_equity leaves the unrealized P&L out
get_portfolio_summary_cash_only(P, capital, history) ==
    LET total_unrealized == SumUnrealized(P, DOMAIN P)
    IN  [ initial_capital  |-> InitialCapital,
          current_capital  |-> capital,
          unrealized_pnl   |-> total_unrealized,
          total_equity     |-> capital,
          current_drawdown |-> InitialCapital - capital,
          positions_count  |-> Cardinality(DOMAIN P),
          trades_completed |-> Len(history) ]

get_portfolio_summary(P, capital, history) ==
    LET total_unrealized == SumUnrealized(P, DOMAIN P)
    IN  [ initial_capital  |-> InitialCapital,
          current_capital  |-> capital,
          unrealized_pnl   |-> total_unrealized,
          total_equity     |-> capital + total_unrealized,
          current_drawdown |-> InitialCapital - capital,
          positions_count  |-> Cardinality(DOMAIN P),
          trades_completed |-> Len(history) ]

----------------------------------------------------------------------------
(* RiskManager: the calls a client makes *)

Call(op, symbol, ret) == [op |-> op, symbol |-> symbol, ret |-> ret]

\* the backtest is not running
Idle ==
    /\ pc = "idle"
    /\ ts = 0
    /\ first_bar = [s \in BTSymbols |-> 1]
    /\ gap = [s \in BTSymbols |-> 0]
    /\ current_data = {}
    /\ close = [s \in BTSymbols |-> 0]
    /\ todo = {}
    /\ signals = <<>>
    /\ equity_history = <<>>
    /\ trade_log = <<>>
    /\ closed_now = {}

Init ==
    /\ positions = <<>>
    /\ current_capital = InitialCapital
    /\ trade_history = <<>>
    /\ last = Call("init", "", "None")
    /\ calls_left = MaxCalls
    /\ Idle

AddPosition(symbol, position_size, entry_price, stop_loss, take_profit, direction) ==
    /\ calls_left > 0
    /\ positions' = add_position(positions, current_capital, symbol, position_size,
                                 entry_price, stop_loss, take_profit, direction)
    /\ last' = Call("add_position", symbol,
                    IF check_risk_limits(positions, current_capital, symbol,
                                         position_size, entry_price)
                    THEN "True" ELSE "False")
    /\ calls_left' = calls_left - 1
    /\ UNCHANGED btVars
    /\ UNCHANGED <<current_capital, trade_history>>

\* mutant: the mark books the unrealized P&L into the capital
UpdatePositionPnl_books_capital(symbol, current_price) ==
    /\ calls_left > 0
    /\ IF UpdateRaises(positions, symbol)
       THEN /\ positions' = positions
            /\ last' = Call("update_position_pnl", symbol, "KeyError")
       ELSE /\ positions' = update_position_pnl(positions, symbol, current_price)
            /\ last' = Call("update_position_pnl", symbol, "None")
    /\ calls_left' = calls_left - 1
    /\ UNCHANGED btVars
    /\ current_capital' =
         IF symbol \in DOMAIN positions'
         THEN current_capital + positions'[symbol].unrealized_pnl
         ELSE current_capital
    /\ UNCHANGED trade_history

UpdatePositionPnl(symbol, current_price) ==
    /\ calls_left > 0
    /\ IF UpdateRaises(positions, symbol)
       THEN /\ positions' = positions
            /\ last' = Call("update_position_pnl", symbol, "KeyError")
       ELSE /\ positions' = update_position_pnl(positions, symbol, current_price)
            /\ last' = Call("update_position_pnl", symbol, "None")
    /\ calls_left' = calls_left - 1
    /\ UNCHANGED btVars
    /\ UNCHANGED <<current_capital, trade_history>>

CheckStopLoss(symbol, current_price) ==
    /\ calls_left > 0
    /\ last' = Call("check_stop_loss", symbol,
                    IF check_stop_loss(positions, symbol, current_price)
                    THEN "True" ELSE "False")
    /\ calls_left' = calls_left - 1
    /\ UNCHANGED btVars
    /\ UNCHANGED rmVars

CheckTakeProfit(symbol, current_price) ==
    /\ calls_left > 0
    /\ last' = Call("check_take_profit", symbol,
                    IF check_take_profit(positions, symbol, current_price)
                    THEN "True" ELSE "False")
    /\ calls_left' = calls_left - 1
    /\ UNCHANGED btVars
    /\ UNCHANGED rmVars

ClosePosition(symbol, exit_price, reason) ==
    /\ calls_left > 0
    /\ Len(trade_history) < MaxTrades
    /\ IF symbol \notin DOMAIN positions
       THEN /\ UNCHANGED rmVars
            /\ last' = Call("close_position", symbol, "{}")
       ELSE IF UpdateRaises(positions, symbol)
       THEN /\ UNCHANGED rmVars
            /\ last' = Call("close_position", symbol, "KeyError")
       ELSE LET r == close_position(positions, current_capital, trade_history,
                                    symbol, exit_price, reason)
            IN  /\ positions' = r.positions
                /\ current_capital' = r.current_capital
                /\ trade_history' = r.trade_history
                /\ last' = Call("close_position", symbol, "trade_record")
    /\ calls_left' = calls_left - 1
    /\ UNCHANGED btVars

CalculatePositionSize(symbol, entry_price, stop_loss) ==
    /\ calls_left > 0
    /\ last' = Call("calculate_position_size", symbol,
                    IF calculate_position_size(symbol, entry_price, stop_loss,
                                               current_capital) > 0
                    THEN "positive" ELSE "0")
    /\ calls_left' = calls_left - 1
    /\ UNCHANGED btVars
    /\ UNCHANGED rmVars

GetPortfolioSummary ==
    /\ calls_left > 0
    /\ last' = Call("get_portfolio_summary", "", "summary")
    /\ calls_left' = calls_left - 1
    /\ UNCHANGED btVars
    /\ UNCHANGED rmVars

Next ==
    \/ \E symbol \in TradedSymbols, k \in 0..MaxSize, o \in Orders :
            AddPosition(symbol, k * SizeUnit(symbol), 100, o[2], o[3], o[1])
    \/ \E symbol \in TradedSymbols, current_price \in Prices :
            UpdatePositionPnl(symbol, current_price)
    \/ \E symbol \in TradedSymbols, current_price \in Prices :
            CheckStopLoss(symbol, current_price)
    \/ \E symbol \in TradedSymbols, current_price \in Prices :
            CheckTakeProfit(symbol, current_price)
    \/ \E symbol \in TradedSymbols, exit_price \in Prices, reason \in Reasons :
            ClosePosition(symbol, exit_price, reason)
    \/ \E symbol \in TradedSymbols, stop_loss \in Prices :
            CalculatePositionSize(symbol, 100, stop_loss)
    \/ GetPortfolioSummary

Spec == Init /\ [][Next]_vars

----------------------------------------------------------------------------
(* A client that fills the position table: every symbol, one order *)

InitSlots ==
    /\ positions = <<>>
    /\ current_capital = InitialCapital
    /\ trade_history = <<>>
    /\ last = Call("init", "", "None")
    /\ calls_left = MaxSlotCalls
    /\ Idle

NextSlots ==
    \/ \E symbol \in Symbols : AddPosition(symbol, 1, 100, 40, 160, "LONG")
    \/ \E symbol \in Symbols : UpdatePositionPnl(symbol, 160)
    \/ \E symbol \in Symbols : CheckStopLoss(symbol, 160)
    \/ \E symbol \in Symbols : CheckTakeProfit(symbol, 160)
    \/ \E symbol \in Symbols : ClosePosition(symbol, 160, "MANUAL")

SpecSlots == InitSlots /\ [][NextSlots]_vars

----------------------------------------------------------------------------
(* BaseStrategy: the strategy is abstract; its signals and its brackets    *)
(* are inputs of the backtest.                                             *)

\* what generate_signals may return: confidence in tenths; missing holds the
\* required fields the signal dict lacks (the value shown for such a field is
\* never read)
RawSignals ==
    { [symbol |-> "ES",     direction |-> "LONG",  confidence |-> 7,  missing |-> {}],
      [symbol |-> "ES",     direction |-> "SHORT", confidence |-> 7,  missing |-> {}],
      [symbol |-> "EURUSD", direction |-> "LONG",  confidence |-> 7,  missing |-> {}],
      [symbol |-> "ES",     direction |-> "HOLD",  confidence |-> 7,  missing |-> {}],
      [symbol |-> "EURUSD", direction |-> "SHORT", confidence |-> 11, missing |-> {}],
      [symbol |-> "ES",     direction |-> "LONG",  confidence |-> 7,
       missing |-> {"timestamp"}] }

required_fields == {"symbol", "direction", "confidence", "timestamp"}

\* mutant: the direction of a signal is not tested
validate_signal_any_direction(signal) ==
    IF signal.missing \cap required_fields # {} THEN FALSE
    ELSE IF ~ (0 <= signal.confidence /\ signal.confidence <= 10) THEN FALSE
    ELSE TRUE

validate_signal(signal) ==
    IF signal.missing \cap required_fields # {} THEN FALSE
    ELSE IF signal.direction \notin {"LONG", "SHORT"} THEN FALSE
    ELSE IF ~ (0 <= signal.confidence /\ signal.confidence <= 10) THEN FALSE
    ELSE TRUE

\* execute_strategy: the valid signals, in the order generated
execute_strategy(raw) == SelectSeq(raw, validate_signal)

----------------------------------------------------------------------------
(* BacktestEngine._simulate_trading *)

\* timestamp in df.index
HasBar(symbol, t) == t >= first_bar[symbol] /\ t # gap[symbol]

\* len(df.loc[:timestamp])
SliceLen(symbol, t) == Cardinality({u \in 1..t : HasBar(symbol, u)})

\* keys of current_data at timestamp t
CurrentData(t) ==
    {s \in BTSymbols : HasBar(s, t) /\ SliceLen(s, t) >= MinBars}

InitBT ==
    /\ positions = <<>>
    /\ current_capital = InitialCapital
    /\ trade_history = <<>>
    /\ last = Call("init", "", "None")
    /\ calls_left = 0
    /\ pc = "slice"
    /\ ts = 0
    /\ first_bar \in {f \in [BTSymbols -> {1, 2}] : 1 \in {f[s] : s \in BTSymbols}}
    /\ gap \in {g \in [BTSymbols -> {0, MinBars + 1}] : 0 \in {g[s] : s \in BTSymbols}}
    /\ current_data = {}
    /\ close = [s \in BTSymbols |-> 0]
    /\ todo = {}
    /\ signals = <<>>
    /\ equity_history = <<>>
    /\ trade_log = <<>>
    /\ closed_now = {}

\* lines 102-113: the next timestamp and its data slice
BuildSlice ==
    /\ pc = "slice"
    /\ ts < MaxT
    /\ ts' = ts + 1
    /\ current_data' = CurrentData(ts + 1)
    /\ closed_now' = {}
    /\ IF CurrentData(ts + 1) = {}
       THEN /\ pc' = "slice"                     \* continue
            /\ UNCHANGED <<close, todo>>
       ELSE /\ pc' = "manage"
            /\ \E c \in [CurrentData(ts + 1) -> BTPrices] :
                 close' = [s \in BTSymbols |->
                             IF s \in CurrentData(ts + 1) THEN c[s] ELSE 0]
            /\ todo' = DOMAIN positions
    /\ UNCHANGED <<rmVars, clientVars, first_bar, gap, signals, equity_history,
                   trade_log>>

\* mutant: the target is checked before the stop
ManagePosition_target_first(symbol) ==
    /\ pc = "manage"
    /\ symbol \in todo
    /\ todo' = todo \ {symbol}
    /\ IF symbol \notin current_data
       THEN UNCHANGED <<rmVars, trade_log, closed_now>>
       ELSE LET current_price == close[symbol]
                P == update_position_pnl(positions, symbol, current_price)
                reason == IF check_take_profit(P, symbol, current_price)
                          THEN "TAKE_PROFIT"
                          ELSE IF check_stop_loss(P, symbol, current_price)
                          THEN "STOP_LOSS"
                          ELSE "NONE"
                r == close_position(P, current_capital, trade_history, symbol,
                                    current_price, reason)
            IN  IF reason = "NONE"
                THEN /\ positions' = P
                     /\ UNCHANGED <<current_capital, trade_history, trade_log,
                                    closed_now>>
                ELSE /\ positions' = r.positions
                     /\ current_capital' = r.current_capital
                     /\ trade_history' = r.trade_history
                     /\ trade_log' = Append(trade_log,
                                            r.trade_history[Len(r.trade_history)])
                     /\ closed_now' = closed_now \cup {symbol}
    /\ UNCHANGED <<clientVars, pc, ts, first_bar, gap, current_data, close,
                   signals, equity_history>>

\* mutant: a position is managed whether or not its symbol is in current_data
ManagePosition_without_bar(symbol) ==
    /\ pc = "manage"
    /\ symbol \in todo
    /\ todo' = todo \ {symbol}
    /\ LET current_price == close[symbol]
           P == update_position_pnl(positions, symbol, current_price)
           reason == IF check_stop_loss(P, symbol, current_price)
                     THEN "STOP_LOSS"
                     ELSE IF check_take_profit(P, symbol, current_price)
                     THEN "TAKE_PROFIT"
                     ELSE "NONE"
           r == close_position(P, current_capital, trade_history, symbol,
                               current_price, reason)
       IN  IF reason = "NONE"
           THEN /\ positions' = P
                /\ UNCHANGED <<current_capital, trade_history, trade_log,
                               closed_now>>
           ELSE /\ positions' = r.positions
                /\ current_capital' = r.current_capital
                /\ trade_history' = r.trade_history
                /\ trade_log' = Append(trade_log,
                                       r.trade_history[Len(r.trade_history)])
                /\ closed_now' = closed_now \cup {symbol}
    /\ UNCHANGED <<clientVars, pc, ts, first_bar, gap, current_data, close,
                   signals, equity_history>>

\* lines 116-128: one iteration of the loop over list(positions.keys())
ManagePosition(symbol) ==
    /\ pc = "manage"
    /\ symbol \in todo
    /\ todo' = todo \ {symbol}
    /\ IF symbol \notin current_data
       THEN UNCHANGED <<rmVars, trade_log, closed_now>>
       ELSE LET current_price == close[symbol]
                P == update_position_pnl(positions, symbol, current_price)
                reason == IF check_stop_loss(P, symbol, current_price)
                          THEN "STOP_LOSS"
                          ELSE IF check_take_profit(P, symbol, current_price)
                          THEN "TAKE_PROFIT"
                          ELSE "NONE"
                r == close_position(P, current_capital, trade_history, symbol,
                                    current_price, reason)
            IN  IF reason = "NONE"
                THEN /\ positions' = P
                     /\ UNCHANGED <<current_capital, trade_history, trade_log,
                                    closed_now>>
                ELSE /\ positions' = r.positions
                     /\ current_capital' = r.current_capital
                     /\ trade_history' = r.trade_history
                     /\ trade_log' = Append(trade_log,
                                            r.trade_history[Len(r.trade_history)])
                     /\ closed_now' = closed_now \cup {symbol}
    /\ UNCHANGED <<clientVars, pc, ts, first_bar, gap, current_data, close,
                   signals, equity_history>>

\* line 131: signals = strategy.execute_strategy(current_data)
ExecuteStrategy ==
    /\ pc = "manage"
    /\ todo = {}
    /\ \E n \in 0..MaxSignals : \E raw \in [1..n -> RawSignals] :
         signals' = execute_strategy(raw)
    /\ pc' = "signals"
    /\ UNCHANGED <<rmVars, clientVars, ts, first_bar, gap, current_data, close,
                   todo, equity_history, trade_log, closed_now>>

\* lines 134-155: one iteration of the loop over signals
ProcessSignal ==
    /\ pc = "signals"
    /\ signals # <<>>
    /\ signals' = Tail(signals)
    /\ LET signal == Head(signals)
           symbol == signal.symbol
       IN  IF symbol \notin current_data
           THEN UNCHANGED positions              \* continue
           ELSE \E bracket \in Brackets :
                  LET sign          == IF signal.direction = "LONG" THEN 1 ELSE -1
                      entry_price   == close[symbol]
                      stop_loss     == entry_price - sign * bracket[1]
                      take_profit   == IF bracket[2] = NoTakeProfit
                                       THEN NoTakeProfit
                                       ELSE entry_price + sign * bracket[2]
                      position_size == calculate_position_size(
                                           symbol, entry_price, stop_loss,
                                           current_capital)
                  IN  positions' = add_position(positions, current_capital, symbol,
                                                position_size, entry_price,
                                                stop_loss, take_profit,
                                                signal.direction)
    /\ UNCHANGED <<current_capital, trade_history, clientVars, pc, ts, first_bar,
                   gap, current_data, close, todo, equity_history, trade_log,
                   closed_now>>

\* mutant: the snapshot is keyed by its place in equity_history
RecordEquity_keyed_by_place ==
    /\ pc = "signals"
    /\ signals = <<>>
    /\ LET portfolio_summary ==
               get_portfolio_summary(positions, current_capital, trade_history)
       IN  equity_history' = Append(equity_history,
               [ timestamp      |-> Len(equity_history) + 1,
                 equity         |-> portfolio_summary.total_equity,
                 cash           |-> portfolio_summary.current_capital,
                 unrealized_pnl |-> portfolio_summary.unrealized_pnl,
                 positions      |-> portfolio_summary.positions_count ])
    /\ pc' = "slice"
    /\ UNCHANGED <<rmVars, clientVars, ts, first_bar, gap, current_data, close,
                   todo, signals, trade_log, closed_now>>

\* lines 157-165: record equity, then the next timestamp
RecordEquity ==
    /\ pc = "signals"
    /\ signals = <<>>
    /\ LET portfolio_summary ==
               get_portfolio_summary(positions, current_capital, trade_history)
       IN  equity_history' = Append(equity_history,
               [ timestamp      |-> ts,
                 equity         |-> portfolio_summary.total_equity,
                 cash           |-> portfolio_summary.current_capital,
                 unrealized_pnl |-> portfolio_summary.unrealized_pnl,
                 positions      |-> portfolio_summary.positions_count ])
    /\ pc' = "slice"
    /\ UNCHANGED <<rmVars, clientVars, ts, first_bar, gap, current_data, close,
                   todo, signals, trade_log, closed_now>>

\* lines 167-172: the loop is over
Finish ==
    /\ pc = "slice"
    /\ ts = MaxT
    /\ pc' = "done"
    /\ UNCHANGED <<rmVars, clientVars, ts, first_bar, gap, current_data, close,
                   todo, signals, equity_history, trade_log, closed_now>>

NextBT ==
    \/ BuildSlice
    \/ \E symbol \in BTSymbols : ManagePosition(symbol)
    \/ ExecuteStrategy
    \/ ProcessSignal
    \/ RecordEquity
    \/ Finish

SpecBT == InitBT /\ [][NextBT]_vars

----------------------------------------------------------------------------
(* Position sizing followed by the entry: calculate_position_size, then
   add_position with the size it returned, as the backtest does at lines
   144-155 of backtesting_engine.py *)

\* instruments sized: the configured ones and one without a specification
SizingSymbols == FUTURES_SYMBOLS \cup FOREX_SYMBOLS \cup {"CL"}

\* entry prices in ticks or pips (18000 ticks of 0.25 = 4500.00)
SizingEntries == {100, 18000}

\* distances entry - stop in ticks or pips, up to MaxDistance
MaxDistance == 80

Distances == {d \in -MaxDistance..MaxDistance :
                 Abs(d) \in {0, 1, 2, 6, 7, 20, 21, MaxDistance}}

\* account balances, in money units
Balances == {InitialCapital, 4 * MoneyScale, 0, -InitialCapital}

InitSizing ==
    /\ positions = <<>>
    /\ current_capital = InitialCapital
    /\ trade_history = <<>>
    /\ last = Call("init", "", "None")
    /\ calls_left = 2
    /\ Idle

SizeOrder(symbol, entry_price, stop_loss, account_balance) ==
    /\ last.op = "init"
    /\ last' = [ op              |-> "calculate_position_size",
                 symbol          |-> symbol,
                 entry_price     |-> entry_price,
                 stop_loss       |-> stop_loss,
                 account_balance |-> account_balance,
                 ret             |-> calculate_position_size(symbol, entry_price,
                                                             stop_loss, account_balance) ]
    /\ calls_left' = calls_left - 1
    /\ UNCHANGED <<rmVars, btVars>>

EnterSized(direction) ==
    /\ last.op = "calculate_position_size"
    /\ positions' = add_position(positions, current_capital, last.symbol, last.ret,
                                 last.entry_price, last.stop_loss, NoTakeProfit,
                                 direction)
    /\ last' = [ op     |-> "add_position",
                 symbol |-> last.symbol,
                 size   |-> last.ret,
                 entry_price |-> last.entry_price,
                 stop_loss   |-> last.stop_loss,
                 ret    |-> IF check_risk_limits(positions, current_capital,
                                                 last.symbol, last.ret,
                                                 last.entry_price)
                            THEN "True" ELSE "False" ]
    /\ calls_left' = calls_left - 1
    /\ UNCHANGED <<current_capital, trade_history, btVars>>

NextSizing ==
    \/ \E symbol \in SizingSymbols, entry_price \in SizingEntries,
          d \in Distances, account_balance \in Balances :
          SizeOrder(symbol, entry_price, entry_price - d, account_balance)
    \/ \E direction \in Directions : EnterSized(direction)

SpecSizing == InitSizing /\ [][NextSizing]_vars

----------------------------------------------------------------------------
(* ICT signal engines: ICTStrategy and StandaloneICTStrategy.
   Scores, strengths and weights are in hundredths (0.6 = 60).  The component
   analyses (dealing range, levels, session phase, hidden-gap patterns) enter
   as the analysis record they produce. *)

Engines == {"ICTStrategy", "StandaloneICTStrategy"}

\* analyze_market: the bar count below which the empty snapshot is returned
MinBarsICT == 100

MinBarsStandalone == 50

RequiredBars(engine) ==
    IF engine = "ICTStrategy" THEN MinBarsICT ELSE MinBarsStandalone

\* min_confluence of ICTStrategy.filter_signals; default confluence_threshold
DefaultThreshold == 60

\* default max_daily_trades
DefaultMaxDailyTrades == 3

\* bar counts handed to the engines
BarCounts == {MinBarsStandalone - 1, MinBarsStandalone, MinBarsICT - 1, MinBarsICT}

\* raw strengths (1 - distance from the zone edge) of _analyze_price_position
RawStrengths == {0, 71, 100, 130}

Zones == {"discount", "premium", "equilibrium"}

\* level_weights of GoldbachLevels by level type
LevelWeight(level_type) ==
    CASE level_type = "high_low"       -> 100
      [] level_type = "order_block"    -> 90
      [] level_type = "fair_value_gap" -> 80
      [] level_type = "liquidity_void" -> 70
      [] level_type = "breaker"        -> 60
      [] level_type = "equilibrium"    -> 50

\* nearest_level: its type and how far the price is from it, as the band of
\* distance / price: "0.1%" below 0.001, "0.2%" below 0.002, "far" otherwise
NearestLevels ==
    [ level_type : {"high_low", "order_block", "fair_value_gap", "breaker"},
      band       : {"0.1%", "0.2%", "far"} ]

\* hidden-gap patterns found: each is_hippo or not, bullish or a reversal
PatternKinds ==
    { [is_hippo |-> TRUE,  direction |-> "bullish"],
      [is_hippo |-> TRUE,  direction |-> "reversal"],
      [is_hippo |-> FALSE, direction |-> "bullish"] }

MaxPatterns == 2

PatternLists == UNION { [1..n -> PatternKinds] : n \in 0..MaxPatterns }

\* configurations: (confluence_threshold, max_daily_trades)
Configs == { <<DefaultThreshold, DefaultMaxDailyTrades>>, <<90, 1>> }

EmptyAnalysis == [empty |-> TRUE]

Min(x, y) == IF x < y THEN x ELSE y

Max(x, y) == IF x > y THEN x ELSE y

\* _analyze_price_position: the strength, clamped to [0, 1] by the standalone engine
PositionStrength(engine, analysis) ==
    IF engine = "StandaloneICTStrategy"
    THEN Max(0, Min(100, analysis.raw_strength))
    ELSE analysis.raw_strength

Signal(type, strength) == [type |-> type, strength |-> strength]

generate_po3_signals(engine, analysis) ==
    IF analysis.zone \in {"discount", "premium"}
       /\ PositionStrength(engine, analysis) > 70
    THEN << Signal(IF analysis.zone = "discount" THEN "po3_discount_buy"
                   ELSE "po3_premium_sell",
                   PositionStrength(engine, analysis)) >>
    ELSE << >>

generate_goldbach_signals(analysis) ==
    IF analysis.nearest_level.band = "0.1%"
       /\ analysis.nearest_level.level_type \in {"order_block", "fair_value_gap"}
    THEN << Signal("goldbach_level_reaction",
                   LevelWeight(analysis.nearest_level.level_type)) >>
    ELSE << >>

generate_amd_signals(analysis) ==
    IF analysis.current_phase = "manipulation" /\ analysis.range_expansion
    THEN << Signal("amd_manipulation_breakout", 80) >>
    ELSE << >>

IsSignalPattern(p) == p.is_hippo /\ p.direction # "reversal"

generate_hippo_signals(analysis) ==
    [ i \in 1..Len(SelectSeq(analysis.patterns, IsSignalPattern)) |->
        Signal("hippo_pattern", 70) ]

\* mutant: the score is returned without min(score, 1.0)
calculate_confluence_uncapped(signal, analysis) ==
    signal.strength
      + (IF analysis.current_phase = "manipulation" THEN 20 ELSE 0)
      + (IF analysis.nearest_level.band \in {"0.1%", "0.2%"} THEN 15 ELSE 0)
      + (IF analysis.zone \in {"discount", "premium"} THEN 10 ELSE 0)
      + (IF \E i \in 1..Len(analysis.patterns) : analysis.patterns[i].is_hippo
         THEN 10 ELSE 0)

calculate_confluence(signal, analysis) ==
    Min(signal.strength
          + (IF analysis.current_phase = "manipulation" THEN 20 ELSE 0)
          + (IF analysis.nearest_level.band \in {"0.1%", "0.2%"} THEN 15 ELSE 0)
          + (IF analysis.zone \in {"discount", "premium"} THEN 10 ELSE 0)
          + (IF \E i \in 1..Len(analysis.patterns) : analysis.patterns[i].is_hippo
             THEN 10 ELSE 0),
        100)

\* the candidates in generation order, each with its confluence score and its
\* place in that order
Scored(sigs, analysis) ==
    [ i \in 1..Len(sigs) |->
        [ type             |-> sigs[i].type,
          strength         |-> sigs[i].strength,
          generated        |-> i,
          confluence_score |-> calculate_confluence(sigs[i], analysis) ] ]

\* list.sort(key=confluence_score, reverse=True): stable, so a signal is placed
\* after the signals of higher score and the earlier signals of equal score
SortByConfluence(sigs) ==
    LET Place(i) == Cardinality({j \in 1..Len(sigs) :
                       \/ sigs[j].confluence_score > sigs[i].confluence_score
                       \/ /\ sigs[j].confluence_score = sigs[i].confluence_score
                          /\ j <= i})
    IN  [ r \in 1..Len(sigs) |-> sigs[CHOOSE i \in 1..Len(sigs) : Place(i) = r] ]

Head_n(sigs, n) == SubSeq(sigs, 1, Min(n, Len(sigs)))

\* mutant: the list is cut to max_daily_trades before it is sorted and filtered
filter_signals_cut_first(sigs, analysis, threshold, max_daily_trades) ==
    IF sigs = << >> THEN sigs
    ELSE LET sorted == SortByConfluence(Head_n(Scored(sigs, analysis),
                                               max_daily_trades))
             AtLeast(s) == s.confluence_score >= threshold
         IN  SelectSeq(sorted, AtLeast)

filter_signals(sigs, analysis, threshold, max_daily_trades) ==
    IF sigs = << >> THEN sigs
    ELSE LET sorted == SortByConfluence(Scored(sigs, analysis))
             AtLeast(s) == s.confluence_score >= threshold
         IN  Head_n(SelectSeq(sorted, AtLeast), max_daily_trades)

\* the candidates of generate_signals, in the order of the extend calls
Candidates(engine, analysis) ==
    generate_po3_signals(engine, analysis)
      \o generate_goldbach_signals(analysis)
      \o (IF engine = "ICTStrategy" THEN generate_amd_signals(analysis) ELSE << >>)
      \o generate_hippo_signals(analysis)

\* analyze_market on well-formed bars: the empty snapshot below the required count
analyze_market(engine, bars, analysis) ==
    IF bars < RequiredBars(engine) THEN EmptyAnalysis ELSE analysis

\* the threshold in force: ICTStrategy uses its fixed min_confluence
Threshold(engine, config) ==
    IF engine = "ICTStrategy" THEN DefaultThreshold ELSE config[1]

generate_signals(engine, config, bars, analysis) ==
    LET snapshot == analyze_market(engine, bars, analysis)
    IN  IF snapshot.empty THEN << >>
        ELSE filter_signals(Candidates(engine, snapshot), snapshot,
                             Threshold(engine, config), config[2])

InitICT ==
    /\ positions = <<>>
    /\ current_capital = InitialCapital
    /\ trade_history = <<>>
    /\ last = Call("init", "", "None")
    /\ calls_left = 1
    /\ Idle

GenerateSignals(engine, config, bars, analysis) ==
    /\ last.op = "init"
    /\ last' = [ op         |-> "generate_signals",
                 engine     |-> engine,
                 threshold  |-> Threshold(engine, config),
                 max_daily_trades |-> config[2],
                 bars       |-> bars,
                 analysis   |-> analyze_market(engine, bars, analysis),
                 candidates |-> IF analyze_market(engine, bars, analysis).empty
                                THEN << >>
                                ELSE Scored(Candidates(engine, analysis), analysis),
                 ret        |-> generate_signals(engine, config, bars, analysis) ]
    /\ calls_left' = calls_left - 1
    /\ UNCHANGED <<rmVars, btVars>>

NextICT ==
    /\ last.op = "init"
    /\ \E engine \in Engines, config \in Configs, bars \in BarCounts,
       zone \in Zones, raw_strength \in RawStrengths,
       current_phase \in {"accumulation", "manipulation"},
       range_expansion \in BOOLEAN, nearest_level \in NearestLevels,
       patterns \in PatternLists :
       GenerateSignals(engine, config, bars,
                       [ empty           |-> FALSE,
                         zone            |-> zone,
                         raw_strength    |-> raw_strength,
                         current_phase   |-> current_phase,
                         range_expansion |-> range_expansion,
                         nearest_level   |-> nearest_level,
                         patterns        |-> patterns ])

SpecICT == InitICT /\ [][NextICT]_vars

----------------------------------------------------------------------------
(* PowerOfThree.calculate_dealing_range and GoldbachLevels.calculate_goldbach_levels.
   A price handed to calculate_dealing_range is a whole number of 0.00001.
   The prices of a dealing range are numerators over the denominator den of
   the record: 10^8 for forex, 100 otherwise, so that every value is exact. *)

\* po3_numbers: 3^n
RECURSIVE Po3(_)
Po3(n) == IF n = 0 THEN 1 ELSE 3 * Po3(n - 1)

\* the largest exponent of po3_numbers used
MaxPo3Exp == 6

AssetTypes == {"forex", "indices"}

\* current prices in 0.00001: 0.65000, 1.09358, 1.09359, 150.12300, 4500.00000,
\* 4500.50000
RangePrices == {65000, 109358, 109359, 15012300, 450000000, 450050000}

\* f"{current_price:.5f}".replace('.', '')[:5] as an integer: the first five
\* digits of the integer part followed by the five decimals
FirstFiveDigits(price) ==
    IF price < 1000000 THEN price \div 10
    ELSE IF price < 10000000 THEN price \div 100
    ELSE IF price < 100000000 THEN price \div 1000
    ELSE price \div 10000

calculate_dealing_range(current_price, po3_number, asset_type) ==
    LET base_price     == IF asset_type = "forex"
                          THEN FirstFiveDigits(current_price)
                          ELSE current_price \div 100000
        range_low_int  == (base_price \div po3_number) * po3_number
        range_high_int == range_low_int + po3_number
    IN  IF asset_type = "forex"
        THEN \* range_low = range_low_int / 10^4, and the thresholds
             \* (range_low + po3_number * 0.67) / 10^4
             [ den                |-> 100000000,
               range_low          |-> range_low_int * 10000,
               range_high         |-> range_high_int * 10000,
               equilibrium        |-> (range_low_int + range_high_int) * 5000,
               premium_threshold  |-> range_low_int + po3_number * 6700,
               discount_threshold |-> range_low_int + po3_number * 3300,
               po3_size           |-> po3_number ]
        ELSE [ den                |-> 100,
               range_low          |-> range_low_int * 100,
               range_high         |-> range_high_int * 100,
               equilibrium        |-> (range_low_int + range_high_int) * 50,
               premium_threshold  |-> range_low_int * 100 + po3_number * 67,
               discount_threshold |-> range_low_int * 100 + po3_number * 33,
               po3_size           |-> po3_number ]

\* goldbach_levels: the percentages of each level type
GoldbachPercentages(level_type) ==
    CASE level_type = "high_low"       -> {0, 100}
      [] level_type = "order_block"    -> {11, 89}
      [] level_type = "fair_value_gap" -> {17, 83}
      [] level_type = "liquidity_void" -> {29, 71}
      [] level_type = "breaker"        -> {41, 59}
      [] level_type = "equilibrium"    -> {50}

LevelTypes == {"high_low", "order_block", "fair_value_gap", "liquidity_void",
               "breaker", "equilibrium"}

\* a level: price100 is 100 times its price
Level(level_type, pct, price100) ==
    [ price100   |-> price100,
      percentage |-> pct,
      weight     |-> LevelWeight(level_type),
      type       |-> level_type ]

\* mutant: the levels are measured down from range_high
calculate_goldbach_levels_from_high(range_high, range_low) ==
    LET range_size == range_high - range_low
    IN  [ level_type \in LevelTypes |->
            [ pct \in GoldbachPercentages(level_type) |->
                Level(level_type, pct, range_high * 100 - range_size * pct) ] ]

calculate_goldbach_levels(range_high, range_low) ==
    LET range_size == range_high - range_low
    IN  [ level_type \in LevelTypes |->
            [ pct \in GoldbachPercentages(level_type) |->
                Level(level_type, pct, range_low * 100 + range_size * pct) ] ]

\* range lows and sizes handed to calculate_goldbach_levels
RangeLows == {0, 4455, 10935}

MaxRangeSize == 30

InitRange ==
    /\ positions = <<>>
    /\ current_capital = InitialCapital
    /\ trade_history = <<>>
    /\ last = Call("init", "", "None")
    /\ calls_left = 1
    /\ Idle

CalculateDealingRange(current_price, po3_number, asset_type) ==
    /\ last.op = "init"
    /\ last' = [ op            |-> "calculate_dealing_range",
                 current_price |-> current_price,
                 po3_number    |-> po3_number,
                 asset_type    |-> asset_type,
                 ret           |-> calculate_dealing_range(current_price, po3_number,
                                                           asset_type) ]
    /\ calls_left' = calls_left - 1
    /\ UNCHANGED <<rmVars, btVars>>

CalculateGoldbachLevels(range_high, range_low) ==
    /\ last.op = "init"
    /\ last' = [ op         |-> "calculate_goldbach_levels",
                 range_high |-> range_high,
                 range_low  |-> range_low,
                 ret        |-> calculate_goldbach_levels(range_high, range_low) ]
    /\ calls_left' = calls_left - 1
    /\ UNCHANGED <<rmVars, btVars>>

NextRange ==
    \/ \E current_price \in RangePrices, n \in 1..MaxPo3Exp, asset_type \in AssetTypes :
          CalculateDealingRange(current_price, Po3(n), asset_type)
    \/ \E range_low \in RangeLows, range_size \in 0..MaxRangeSize :
          CalculateGoldbachLevels(range_low + range_size, range_low)
    \/ \E range_low \in RangeLows, n \in 1..MaxPo3Exp :
          CalculateGoldbachLevels(range_low + Po3(n), range_low)

SpecRange == InitRange /\ [][NextRange]_vars

----------------------------------------------------------------------------
(* AMDCycles.identify_daily_amd_cycle.  A bar of the target day is its time of
   day in minutes after midnight; the day's data is the set of its bars. *)

Minutes(hour, minute) == hour * 60 + minute

Sessions == {"asian", "london", "new_york"}

\* session_times
session_times(session_name) ==
    CASE session_name = "asian"    -> [ start |-> Minutes(20, 0), end |-> Minutes(5, 0),
                                        phase |-> "accumulation" ]
      [] session_name = "london"   -> [ start |-> Minutes(5, 0), end |-> Minutes(11, 0),
                                        phase |-> "manipulation" ]
      [] session_name = "new_york" -> [ start |-> Minutes(11, 0), end |-> Minutes(20, 0),
                                        phase |-> "distribution" ]

Phases == {"accumulation", "manipulation", "distribution"}

\* the bar times a day is drawn from: 00:00, 04:59 .. 05:01, 08:00, 11:00, 15:30,
\* 20:00, 23:00
BarTimes == { Minutes(0, 0), Minutes(4, 59), Minutes(5, 0), Minutes(5, 1),
              Minutes(8, 0), Minutes(11, 0), Minutes(15, 30), Minutes(20, 0),
              Minutes(23, 0) }

\* the bars of day_data selected for a session
session_data(session_name, day_data) ==
    LET session_start == session_times(session_name).start
        session_end   == session_times(session_name).end
    IN  IF session_name = "asian"
        THEN { t \in day_data : t >= session_start \/ t <= session_end }
        ELSE { t \in day_data : t >= session_start /\ t <= session_end }

\* the session whose phase is the given one
SessionOf(phase) == CHOOSE s \in Sessions : session_times(s).phase = phase

EmptyCycle == [ empty |-> TRUE ]

identify_daily_amd_cycle(day_data) ==
    IF day_data = {}
    THEN EmptyCycle
    ELSE [ empty |-> FALSE,
           data  |-> [ phase \in Phases |-> session_data(SessionOf(phase), day_data) ] ]

InitAMD ==
    /\ positions = <<>>
    /\ current_capital = InitialCapital
    /\ trade_history = <<>>
    /\ last = Call("init", "", "None")
    /\ calls_left = 1
    /\ Idle

IdentifyDailyAmdCycle(day_data) ==
    /\ last.op = "init"
    /\ last' = [ op       |-> "identify_daily_amd_cycle",
                 day_data |-> day_data,
                 ret      |-> identify_daily_amd_cycle(day_data) ]
    /\ calls_left' = calls_left - 1
    /\ UNCHANGED <<rmVars, btVars>>

NextAMD ==
    \E day_data \in SUBSET BarTimes : IdentifyDailyAmdCycle(day_data)

SpecAMD == InitAMD /\ [][NextAMD]_vars

----------------------------------------------------------------------------
(* BacktestEngine._calculate_performance_metrics: the Sharpe ratio of an equity
   history.  A return is an exact fraction <<numerator, denominator>>.  The
   ratio itself is irrational in general; the model keeps what kind of float it
   is: "nan", "inf", "-inf", "zero" or "finite" (a non-zero finite number). *)

\* the longest equity history
MaxEquityLen == 3

\* total equity recorded at a bar, in dollars
EquityValues == {81, 90, 100, 110, 121}

RECURSIVE SeqsUpTo(_, _)
SeqsUpTo(S, n) ==
    IF n = 0 THEN { <<>> }
    ELSE LET shorter == SeqsUpTo(S, n - 1)
         IN  shorter \cup { Append(s, x) : s \in { t \in shorter : Len(t) = n - 1 }, x \in S }

EquityHistories == SeqsUpTo(EquityValues, MaxEquityLen) \ { <<>> }

\* equity.pct_change() without its leading NaN
pct_change(equity) ==
    [ i \in 1..(Len(equity) - 1) |-> << equity[i + 1] - equity[i], equity[i] >> ]

SameFraction(x, y) == x[1] * y[2] = y[1] * x[2]

\* the sum of the fractions of a sequence, as a fraction
RECURSIVE SumFractions(_)
SumFractions(returns) ==
    IF returns = <<>> THEN << 0, 1 >>
    ELSE LET rest == SumFractions(Tail(returns))
             r    == Head(returns)
         IN  << r[1] * rest[2] + rest[1] * r[2], r[2] * rest[2] >>

\* daily_return.std() is 0: at least two returns, all equal
ZeroStd(returns) ==
    /\ Len(returns) >= 2
    /\ \A i, j \in 1..Len(returns) : SameFraction(returns[i], returns[j])

\* the kinds of float (daily_return.mean() * 252) / (daily_return.std() * sqrt(252))
\* can be.  mean() of no return and std() of fewer than two returns are NaN.
\* Equal returns other than 0 have a standard deviation of 0 in exact
\* arithmetic; rounding of the returns can leave a tiny one instead.
sharpe_ratio(equity) ==
    LET daily_return == pct_change(equity)
        mean         == SumFractions(daily_return)[1]
    IN  IF Len(daily_return) < 2 THEN {"nan"}
        ELSE IF ZeroStd(daily_return)
             THEN IF mean = 0 THEN {"nan"}
                  ELSE IF mean > 0 THEN {"inf", "finite"}
                  ELSE {"-inf", "finite"}
        ELSE IF mean = 0 THEN {"zero"}
        ELSE {"finite"}

InitSharpe ==
    /\ positions = <<>>
    /\ current_capital = InitialCapital
    /\ trade_history = <<>>
    /\ last = Call("init", "", "None")
    /\ calls_left = 1
    /\ Idle

CalculatePerformanceMetrics(equity) ==
    /\ last.op = "init"
    /\ \E ratio \in sharpe_ratio(equity) :
          last' = [ op           |-> "_calculate_performance_metrics",
                    equity       |-> equity,
                    sharpe_ratio |-> ratio ]
    /\ calls_left' = calls_left - 1
    /\ UNCHANGED <<rmVars, btVars>>

NextSharpe ==
    \E equity \in EquityHistories : CalculatePerformanceMetrics(equity)

SpecSharpe == InitSharpe /\ [][NextSharpe]_vars

----------------------------------------------------------------------------
(* RiskManager.get_performance_metrics, called on the trade history that the
   closes of a client have built.  An average is the exact fraction
   <<sum, count>>; the profit factor is "inf" for float('inf') and otherwise
   the fraction num / den. *)

\* the realized P&L of the trades of a history that satisfy a test on its sign
Pnls(history, sign) ==
    LET idx == { i \in 1..Len(history) :
                   CASE sign = "win"  -> history[i].realized_pnl > 0
                     [] sign = "loss" -> history[i].realized_pnl < 0 }
    IN  idx

RECURSIVE SumPnlOver(_, _)
SumPnlOver(history, idx) ==
    IF idx = {} THEN 0
    ELSE LET i == CHOOSE j \in idx : TRUE
         IN  history[i].realized_pnl + SumPnlOver(history, idx \ {i})

NoMetrics == [ empty |-> TRUE ]

get_performance_metrics(history) ==
    IF history = <<>> THEN NoMetrics
    ELSE LET wins     == Pnls(history, "win")
             losses   == Pnls(history, "loss")
             \* np.mean of the wins / losses, 0 when there is none
             avg_win  == IF wins # {}
                         THEN << SumPnlOver(history, wins), Cardinality(wins) >>
                         ELSE << 0, 1 >>
             avg_loss == IF losses # {}
                         THEN << SumPnlOver(history, losses), Cardinality(losses) >>
                         ELSE << 0, 1 >>
         IN  [ empty         |-> FALSE,
               total_trades  |-> Len(history),
               total_return  |-> SumPnl(history),
               wins          |-> Cardinality(wins),
               average_win   |-> avg_win,
               average_loss  |-> avg_loss,
               profit_factor |->
                   IF avg_loss[1] # 0
                   THEN [ kind |-> "finite",
                          num  |-> avg_win[1] * avg_loss[2],
                          den  |-> Abs(avg_loss[1]) * avg_win[2] ]
                   ELSE [ kind |-> "inf", num |-> 0, den |-> 0 ] ]

InitMetrics ==
    /\ positions = <<>>
    /\ current_capital = InitialCapital
    /\ trade_history = <<>>
    /\ last = Call("init", "", "None")
    /\ calls_left = MaxCalls
    /\ Idle

GetPerformanceMetrics ==
    /\ calls_left > 0
    /\ last' = Call("get_performance_metrics", "",
                    get_performance_metrics(trade_history))
    /\ calls_left' = calls_left - 1
    /\ UNCHANGED btVars
    /\ UNCHANGED rmVars

NextMetrics ==
    \/ \E symbol \in TradedSymbols, o \in Orders :
            AddPosition(symbol, SizeUnit(symbol), 100, o[2], o[3], o[1])
    \/ \E symbol \in TradedSymbols, exit_price \in Prices :
            ClosePosition(symbol, exit_price, "MANUAL")
    \/ GetPerformanceMetrics

SpecMetrics == InitMetrics /\ [][NextMetrics]_vars

----------------------------------------------------------------------------
(* Replay: generate_signals run twice on the same bars with the same
   configuration, at two wall-clock times.  What analyze_market derives from
   the bars is the same in both runs; current_phase is derived from
   datetime.now() by _identify_current_amd_phase. *)

\* datetime.now().time() of a run, in minutes after midnight: 03:00, 08:00, 15:30
WallClocks == { Minutes(3, 0), Minutes(8, 0), Minutes(15, 30) }

identify_current_amd_phase(current_time) ==
    IF \/ current_time >= session_times("asian").start
       \/ current_time <= session_times("asian").end
    THEN "accumulation"
    ELSE IF /\ session_times("london").start <= current_time
            /\ current_time <= session_times("london").end
    THEN "manipulation"
    ELSE "distribution"

\* what the bars determine of the analysis
ReplayLevels == { l \in NearestLevels : l.level_type = "order_block" }

ReplayPatterns == { p \in PatternLists : Len(p) <= 1 }

\* the snapshot of analyze_market on bars read at the wall-clock time current_time
AnalysisAt(from_bars, current_time) ==
    [ empty           |-> FALSE,
      zone            |-> from_bars.zone,
      raw_strength    |-> from_bars.raw_strength,
      current_phase   |-> identify_current_amd_phase(current_time),
      range_expansion |-> from_bars.range_expansion,
      nearest_level   |-> from_bars.nearest_level,
      patterns        |-> from_bars.patterns ]

InitReplay ==
    /\ positions = <<>>
    /\ current_capital = InitialCapital
    /\ trade_history = <<>>
    /\ last = Call("init", "", "None")
    /\ calls_left = 2
    /\ Idle

\* the first run
FirstRun(engine, config, from_bars, current_time) ==
    /\ last.op = "init"
    /\ last' = [ op        |-> "generate_signals",
                 engine    |-> engine,
                 config    |-> config,
                 from_bars |-> from_bars,
                 first_at  |-> current_time,
                 first     |-> generate_signals(engine, config, MinBarsICT,
                                                AnalysisAt(from_bars, current_time)) ]
    /\ calls_left' = calls_left - 1
    /\ UNCHANGED <<rmVars, btVars>>

\* the second run, on the bars and the configuration of the first
SecondRun(current_time) ==
    /\ last.op = "generate_signals"
    /\ last' = [ op        |-> "replay",
                 engine    |-> last.engine,
                 config    |-> last.config,
                 from_bars |-> last.from_bars,
                 first_at  |-> last.first_at,
                 first     |-> last.first,
                 second_at |-> current_time,
                 second    |-> generate_signals(last.engine, last.config, MinBarsICT,
                                                AnalysisAt(last.from_bars, current_time)) ]
    /\ calls_left' = calls_left - 1
    /\ UNCHANGED <<rmVars, btVars>>

NextReplay ==
    \/ /\ last.op = "init"
       /\ \E engine \in Engines, config \in Configs, zone \in Zones,
             raw_strength \in RawStrengths, range_expansion \in BOOLEAN,
             nearest_level \in ReplayLevels, patterns \in ReplayPatterns,
             current_time \in WallClocks :
             FirstRun(engine, config,
                      [ zone            |-> zone,
                        raw_strength    |-> raw_strength,
                        range_expansion |-> range_expansion,
                        nearest_level   |-> nearest_level,
                        patterns        |-> patterns ],
                      current_time)
    \/ \E current_time \in WallClocks : SecondRun(current_time)

SpecReplay == InitReplay /\ [][NextReplay]_vars

----------------------------------------------------------------------------
(* GoldbachLevels.get_nearest_goldbach_level.  Prices and distances are in
   hundredths of a price unit, as the price100 of a level. *)

\* the order in which the two loops visit the levels: the insertion order of
\* goldbach_levels and of each of its percentage lists
IterationOrder ==
    << <<"high_low", 0>>, <<"high_low", 100>>,
       <<"order_block", 11>>, <<"order_block", 89>>,
       <<"fair_value_gap", 17>>, <<"fair_value_gap", 83>>,
       <<"liquidity_void", 29>>, <<"liquidity_void", 71>>,
       <<"breaker", 41>>, <<"breaker", 59>>,
       <<"equilibrium", 50>> >>

\* max_distance = None
NoMaxDistance == -1

NoLevel == [ none |-> TRUE ]

\* the level found by the visit k of the loops and its distance
Visited(current_price, goldbach_levels, k) ==
    LET level_data == goldbach_levels[IterationOrder[k][1]][IterationOrder[k][2]]
    IN  [ none       |-> FALSE,
          price100   |-> level_data.price100,
          percentage |-> level_data.percentage,
          weight     |-> level_data.weight,
          distance   |-> Abs(current_price - level_data.price100),
          level_type |-> IterationOrder[k][1],
          visit      |-> k ]

\* the loops with <= in place of <: a level at the same distance replaces the one held
RECURSIVE nearest_after_last_wins(_, _, _, _)
nearest_after_last_wins(current_price, goldbach_levels, max_distance, k) ==
    IF k = 0 THEN NoLevel
    ELSE LET nearest_level == nearest_after_last_wins(current_price, goldbach_levels,
                                                      max_distance, k - 1)
             candidate     == Visited(current_price, goldbach_levels, k)
         IN  IF /\ max_distance = NoMaxDistance \/ candidate.distance <= max_distance
                /\ nearest_level.none \/ candidate.distance <= nearest_level.distance
             THEN candidate
             ELSE nearest_level

\* nearest_level after the first k visits; min_distance is its distance,
\* float('inf') while there is none
RECURSIVE nearest_after(_, _, _, _)
nearest_after(current_price, goldbach_levels, max_distance, k) ==
    IF k = 0 THEN NoLevel
    ELSE LET nearest_level == nearest_after(current_price, goldbach_levels,
                                            max_distance, k - 1)
             candidate     == Visited(current_price, goldbach_levels, k)
         IN  IF /\ max_distance = NoMaxDistance \/ candidate.distance <= max_distance
                /\ nearest_level.none \/ candidate.distance < nearest_level.distance
             THEN candidate
             ELSE nearest_level

\* mutant: ties go to the level visited last
get_nearest_goldbach_level_last_wins(current_price, goldbach_levels, max_distance) ==
    nearest_after_last_wins(current_price, goldbach_levels, max_distance,
                            Len(IterationOrder))

get_nearest_goldbach_level(current_price, goldbach_levels, max_distance) ==
    nearest_after(current_price, goldbach_levels, max_distance, Len(IterationOrder))

\* sizes of the ranges whose levels are searched
NearestSizes == {0, 27, 100}

\* max_distance arguments, in hundredths
MaxDistances == {NoMaxDistance, 0, 100, 300}

\* how far outside the range the price may lie, in price units
MaxOvershoot == 2

InitNearest ==
    /\ positions = <<>>
    /\ current_capital = InitialCapital
    /\ trade_history = <<>>
    /\ last = Call("init", "", "None")
    /\ calls_left = 1
    /\ Idle

GetNearestGoldbachLevel(current_price, range_high, range_low, max_distance) ==
    /\ last.op = "init"
    /\ last' = [ op            |-> "get_nearest_goldbach_level",
                 current_price |-> current_price,
                 levels        |-> calculate_goldbach_levels(range_high, range_low),
                 max_distance  |-> max_distance,
                 ret           |-> get_nearest_goldbach_level(
                                       current_price,
                                       calculate_goldbach_levels(range_high, range_low),
                                       max_distance) ]
    /\ calls_left' = calls_left - 1
    /\ UNCHANGED <<rmVars, btVars>>

NextNearest ==
    /\ last.op = "init"
    /\ \E range_low \in RangeLows, range_size \in NearestSizes,
          max_distance \in MaxDistances :
          \E price \in (range_low - MaxOvershoot)..(range_low + range_size + MaxOvershoot) :
             GetNearestGoldbachLevel(100 * price, range_low + range_size, range_low,
                                     max_distance)

SpecNearest == InitNearest /\ [][NextNearest]_vars

----------------------------------------------------------------------------
(* HIPPOPatterns._analyze_hippo_pattern on a window of three candles.  Prices
   are whole numbers of 0.00001, so a gap of one pip (0.0001) is 10; the size
   of a gap is kept in tenths of a pip. *)

\* hippo_requirements['min_gap_size'], in pips
min_gap_size == 5

\* hippo_requirements['max_gap_ratio']
max_gap_ratio == 2

NoGap == [ size |-> 0, type |-> "None" ]

\* size: the price difference times 10000, which for prices in 0.00001 is the
\* difference itself read in tenths of a pip
calculate_gap(candle1, candle2) ==
    IF candle2.low > candle1.high
    THEN [ size |-> candle2.low - candle1.high, type |-> "up" ]
    ELSE IF candle2.high < candle1.low
    THEN [ size |-> candle1.low - candle2.high, type |-> "down" ]
    ELSE NoGap

\* twice the hidden level
calculate_hidden_level(candle1, candle2, candle3, direction) ==
    IF direction = "bullish"
    THEN Min(candle1.open, candle1.close) + Min(candle3.open, candle3.close)
    ELSE IF direction = "bearish"
    THEN Max(candle1.open, candle1.close) + Max(candle3.open, candle3.close)
    ELSE IF candle2.high > Max(candle1.high, candle3.high)
    THEN 2 * candle2.high
    ELSE 2 * candle2.low

NotHippo(gap1, gap2) ==
    [ is_hippo     |-> FALSE,
      pattern_type |-> "None",
      gap1_size    |-> IF gap1.size > 0 /\ gap2.size > 0 THEN gap1.size ELSE 0,
      gap2_size    |-> IF gap1.size > 0 /\ gap2.size > 0 THEN gap2.size ELSE 0,
      hidden_level |-> 0,
      direction    |-> "None" ]

\* the pattern of a window that meets the requirements
Hippo(candle1, candle2, candle3, gap1, gap2) ==
    LET direction == IF gap1.type = "up" /\ gap2.type = "up" THEN "bullish"
                     ELSE IF gap1.type = "down" /\ gap2.type = "down" THEN "bearish"
                     ELSE "reversal"
    IN  [ is_hippo     |-> TRUE,
          pattern_type |-> IF direction = "bullish" THEN "bullish_continuation"
                           ELSE IF direction = "bearish" THEN "bearish_continuation"
                           ELSE "reversal",
          gap1_size    |-> gap1.size,
          gap2_size    |-> gap2.size,
          hidden_level |-> calculate_hidden_level(candle1, candle2, candle3, direction),
          direction    |-> direction ]

\* mutant: the ratio of the gaps is not tested
analyze_hippo_pattern_any_ratio(candle1, candle2, candle3) ==
    LET gap1 == calculate_gap(candle1, candle2)
        gap2 == calculate_gap(candle2, candle3)
    IN  IF /\ gap1.size > 0 /\ gap2.size > 0
           /\ gap1.size >= min_gap_size * 10
           /\ gap2.size >= min_gap_size * 10
        THEN Hippo(candle1, candle2, candle3, gap1, gap2)
        ELSE NotHippo(gap1, gap2)

\* gap_ratio = max / min <= max_gap_ratio, as max <= max_gap_ratio * min
analyze_hippo_pattern(candle1, candle2, candle3) ==
    LET gap1 == calculate_gap(candle1, candle2)
        gap2 == calculate_gap(candle2, candle3)
    IN  IF /\ gap1.size > 0 /\ gap2.size > 0
           /\ gap1.size >= min_gap_size * 10
           /\ gap2.size >= min_gap_size * 10
           /\ Max(gap1.size, gap2.size) <= max_gap_ratio * Min(gap1.size, gap2.size)
        THEN Hippo(candle1, candle2, candle3, gap1, gap2)
        ELSE NotHippo(gap1, gap2)

\* identify_hippo_patterns on one window: the pattern is listed when is_hippo
identify_hippo_patterns(candle1, candle2, candle3) ==
    LET hippo_pattern == analyze_hippo_pattern(candle1, candle2, candle3)
    IN  IF hippo_pattern.is_hippo THEN << hippo_pattern >> ELSE << >>

\* the height of a candle
CandleHeight == 30

\* moves from one candle to the next, in 0.00001: above 0 the next low lies
\* that far above the high, below 0 the next high that far below the low, at 0
\* the next candle covers the same prices
Moves == { 0, 10, 49, 50, 60, 70, 100, 101, 120,
           -10, -49, -50, -60, -70, -100, -101, -120 }

\* a candle with the given low; rising: it opens at its low and closes at its high
Candle(low, rising) ==
    [ open  |-> IF rising THEN low ELSE low + CandleHeight,
      high  |-> low + CandleHeight,
      low   |-> low,
      close |-> IF rising THEN low + CandleHeight ELSE low ]

\* the low of the candle that follows a candle with the given low
NextLow(low, move) ==
    IF move > 0 THEN low + CandleHeight + move
    ELSE IF move < 0 THEN low - CandleHeight + move
    ELSE low

InitHippo ==
    /\ positions = <<>>
    /\ current_capital = InitialCapital
    /\ trade_history = <<>>
    /\ last = Call("init", "", "None")
    /\ calls_left = 1
    /\ Idle

AnalyzeHippoPattern(move1, move2, candle1, candle2, candle3) ==
    /\ last.op = "init"
    /\ last' = [ op      |-> "_analyze_hippo_pattern",
                 move1   |-> move1,
                 move2   |-> move2,
                 pattern |-> analyze_hippo_pattern(candle1, candle2, candle3),
                 signals |-> generate_hippo_signals(
                               [ patterns |-> identify_hippo_patterns(candle1, candle2,
                                                                      candle3) ]) ]
    /\ calls_left' = calls_left - 1
    /\ UNCHANGED <<rmVars, btVars>>

NextHippo ==
    /\ last.op = "init"
    /\ \E move1 \in Moves, move2 \in Moves, rising \in BOOLEAN :
          AnalyzeHippoPattern(move1, move2,
                              Candle(109000, rising),
                              Candle(NextLow(109000, move1), rising),
                              Candle(NextLow(NextLow(109000, move1), move2), rising))

SpecHippo == InitHippo /\ [][NextHippo]_vars

----------------------------------------------------------------------------
(* Properties *)

OpenIn(class) == {s \in DOMAIN positions : s \in class}

\* C1: the open-position table never holds more than MAX_POSITIONS positions,
\* holds one position per instrument (each key holds the position of that
\* symbol), and with MAX_POSITIONS positions open an add_position for an
\* instrument without a position is refused and changes nothing.
C1_PositionLimit ==
    /\ Cardinality(DOMAIN positions) <= MAX_POSITIONS
    /\ \A s \in DOMAIN positions : positions[s].symbol = s
    /\ Cardinality(DOMAIN positions) = MAX_POSITIONS =>
         \A s \in Symbols \ DOMAIN positions :
            /\ ~ check_risk_limits(positions, current_capital, s, 1, 100)
            /\ add_position(positions, current_capital, s, 1, 100, 40, 160, "LONG")
                 = positions

\* C1 witness: MAX_POSITIONS positions are open and the last call, an
\* add_position for an instrument without a position, returned False.
C1_Witness ==
    /\ Cardinality(DOMAIN positions) = MAX_POSITIONS
    /\ last.op = "add_position"
    /\ last.ret = "False"
    /\ last.symbol \notin DOMAIN positions

\* the realized P&L of the trade history, summed from its end
RECURSIVE RealizedTotal(_, _)
RealizedTotal(history, n) ==
    IF n = 0 THEN 0 ELSE history[n].realized_pnl + RealizedTotal(history, n - 1)

\* C2: current_capital = initial_capital + the sum of realized_pnl over the
\* trade history, in every reachable state.
C2_CapitalIsInitialPlusRealized ==
    current_capital = InitialCapital + RealizedTotal(trade_history, Len(trade_history))

\* C2 witness: two closes with non-zero P&L of opposite sign have been booked.
C2_Witness ==
    /\ Len(trade_history) = 2
    /\ trade_history[1].realized_pnl < 0
    /\ trade_history[2].realized_pnl > 0
    /\ current_capital # InitialCapital

\* C3: a step changes current_capital only if it is a close_position of an
\* existing position (which returns the trade record); add_position,
\* update_position_pnl, check_stop_loss, check_take_profit,
\* calculate_position_size and get_portfolio_summary leave it unchanged.
C3_CapitalChangesOnlyOnClose ==
    [][ /\ current_capital' # current_capital =>
            /\ last'.op = "close_position"
            /\ last'.ret = "trade_record"
            /\ last'.symbol \in DOMAIN positions
        /\ last'.op \in {"add_position", "update_position_pnl", "check_stop_loss",
                        "check_take_profit", "calculate_position_size",
                        "get_portfolio_summary"} =>
            current_capital' = current_capital ]_vars

\* C3 witness: a close of an existing position has just changed the capital
\* while another position, marked to a non-zero P&L, stays open.
C3_Witness ==
    /\ last.op = "close_position"
    /\ last.ret = "trade_record"
    /\ current_capital # InitialCapital
    /\ \E s \in DOMAIN positions : positions[s].unrealized_pnl # 0

\* the unrealized P&L of the open positions, symbol by symbol
RECURSIVE OpenUnrealized(_)
OpenUnrealized(S) ==
    IF S = {} THEN 0
    ELSE LET s == CHOOSE x \in S : TRUE
         IN  (IF s \in DOMAIN positions THEN positions[s].unrealized_pnl ELSE 0)
             + OpenUnrealized(S \ {s})

\* C4: the portfolio summary of every state has total_equity = capital + the
\* unrealized P&L of the open positions and counts the open positions; every
\* equity-history entry has equity = cash + unrealized P&L, and the
\* entry just recorded (the portfolio is untouched until the next timestamp's
\* position management) has cash = current_capital, unrealized P&L = the sum
\* over the open positions and positions = the number of open positions.
C4_EquityIsCashPlusUnrealized ==
    /\ LET summary == get_portfolio_summary(positions, current_capital, trade_history)
       IN  /\ summary.total_equity = current_capital + OpenUnrealized(BTSymbols)
           /\ summary.positions_count = Cardinality(DOMAIN positions)
    /\ \A i \in 1..Len(equity_history) :
          equity_history[i].equity =
              equity_history[i].cash + equity_history[i].unrealized_pnl
    /\ (pc \in {"slice", "done"} /\ equity_history # <<>>) =>
          LET e == equity_history[Len(equity_history)]
          IN  /\ e.cash = current_capital
              /\ e.equity = current_capital + OpenUnrealized(BTSymbols)
              /\ e.positions = Cardinality(DOMAIN positions)

\* C4 witness: an entry was recorded with two positions open and a non-zero
\* unrealized P&L, after a close had changed the cash.
C4_Witness ==
    /\ pc = "slice"
    /\ equity_history # <<>>
    /\ equity_history[Len(equity_history)].positions = 2
    /\ equity_history[Len(equity_history)].unrealized_pnl # 0
    /\ equity_history[Len(equity_history)].cash # InitialCapital

\* C5: an add_position for an instrument that has an open position returns
\* False and leaves the position table (so the existing position's size,
\* direction, entry, stop, target and excursions), the capital and the trade
\* history unchanged.
C5_DuplicateEntryRejected ==
    [][ (last'.op = "add_position" /\ last'.symbol \in DOMAIN positions) =>
            /\ last'.ret = "False"
            /\ positions' = positions
            /\ current_capital' = current_capital
            /\ trade_history' = trade_history ]_vars

\* C5 witness: the last call was a refused add_position for an instrument
\* whose position is open and has been marked.
C5_Witness ==
    /\ last.op = "add_position"
    /\ last.ret = "False"
    /\ last.symbol \in DOMAIN positions
    /\ positions[last.symbol].unrealized_pnl # 0
    /\ Cardinality(DOMAIN positions) < MAX_POSITIONS
    /\ InitialCapital - current_capital < MAX_DRAWDOWN_USD * MoneyScale

\* boundary-inclusive stop and target conditions of a position at a price
StopHit(pos, price) ==
    \/ pos.direction = "LONG" /\ price <= pos.stop_loss
    \/ pos.direction = "SHORT" /\ price >= pos.stop_loss

TargetHit(pos, price) ==
    /\ pos.take_profit # NoTakeProfit
    /\ \/ pos.direction = "LONG" /\ price >= pos.take_profit
       \/ pos.direction = "SHORT" /\ price <= pos.take_profit

\* C6: when the backtest manages a position whose close satisfies both its
\* stop and its target condition, the position is removed, exactly one trade
\* record is appended to the trade history and to the trade log, and its exit
\* reason is STOP_LOSS.
C6_StopWinsOnConflict ==
    [][ \A s \in BTSymbols :
          ( /\ pc = "manage"
            /\ s \in todo
            /\ s \notin todo'
            /\ s \in current_data
            /\ s \in DOMAIN positions
            /\ StopHit(positions[s], close[s])
            /\ TargetHit(positions[s], close[s]) ) =>
          ( /\ s \notin DOMAIN positions'
            /\ Len(trade_history') = Len(trade_history) + 1
            /\ Len(trade_log') = Len(trade_log) + 1
            /\ trade_history'[Len(trade_history')].symbol = s
            /\ trade_history'[Len(trade_history')].exit_reason = "STOP_LOSS"
            /\ trade_log'[Len(trade_log')] = trade_history'[Len(trade_history')] )
      ]_vars

\* C6 witness: a position was closed at this timestamp with reason STOP_LOSS at
\* a price on the profit side of its entry or at it: its stop lay beyond the
\* close and, the brackets being symmetric about the entry, its target was
\* reached at the same close.
C6_Witness ==
    /\ closed_now # {}
    /\ trade_log # <<>>
    /\ LET t == trade_log[Len(trade_log)]
       IN  /\ t.symbol \in closed_now
           /\ t.exit_reason = "STOP_LOSS"
           /\ \/ t.direction = "LONG" /\ t.exit_price >= t.entry_price
              \/ t.direction = "SHORT" /\ t.exit_price <= t.entry_price

\* C7: position management precedes signal evaluation at every timestamp, and
\* no instrument has a position closed and a new one opened at the same
\* timestamp.
C7_NoCloseAndReopenOnSameBar ==
    /\ pc = "signals" => todo = {}
    /\ \A s \in closed_now : s \notin DOMAIN positions

\* the drawdown initial_capital - current_capital reached MAX_DRAWDOWN_USD after
\* some close of the history
EverBreached(history) ==
    \E k \in 1..Len(history) :
        - RealizedTotal(history, k) >= MAX_DRAWDOWN_USD * MoneyScale

\* C8: once the drawdown has reached the limit, no later add_position is
\* accepted.
C8_BreachHaltsEntries ==
    (EverBreached(trade_history) /\ last.op = "add_position") => last.ret = "False"

RECURSIVE AcceptedEntries(_, _)
AcceptedEntries(P, n) ==
    IF n = 0 THEN {P}
    ELSE {P} \cup UNION { AcceptedEntries(
                             add_position(P, InitialCapital, s, 1, 100, 40, 160, "LONG"),
                             n - 1) :
                          s \in {x \in FUTURES_SYMBOLS \cup FOREX_SYMBOLS :
                                   check_risk_limits(P, InitialCapital, x, 1, 100)} }

\* C10: from the empty table of a new RiskManager some sequence of accepted
\* entries on the configured instruments opens 3 futures and 3 forex positions.
C10_ThreePlusThreeReachable ==
    (positions = <<>> /\ current_capital = InitialCapital) =>
        \E P \in AcceptedEntries(positions, MAX_POSITIONS) :
            /\ Cardinality({s \in DOMAIN P : s \in FUTURES_SYMBOLS}) = 3
            /\ Cardinality({s \in DOMAIN P : s \in FOREX_SYMBOLS}) = 3

\* the floored quotient risk amount / risk per unit is not positive
QuotientNotPositive(symbol, entry_price, stop_loss, account_balance) ==
    LET risk_per_unit == IF symbol \in FUTURES_SYMBOLS
                         THEN Abs(entry_price - stop_loss) * TickValue(symbol)
                         ELSE Abs(entry_price - stop_loss)
    IN  \/ account_balance < 0
        \/ account_balance \div RiskDivisor < risk_per_unit

\* C11: calculate_position_size returns a size >= 0 for every input (a symbol
\* without specification included: no exception leaves it), returns 0 when
\* entry = stop or the floored quotient is not positive (ES, 80 ticks of risk,
\* 100000 dollars: 0), and add_position with a size of 0 returns False and
\* opens nothing.
C11_SizeNeverNegativeZeroRejected ==
    /\ last.op = "calculate_position_size" =>
          /\ last.ret \in Nat
          /\ last.entry_price = last.stop_loss => last.ret = 0
          /\ QuotientNotPositive(last.symbol, last.entry_price, last.stop_loss,
                                 last.account_balance) => last.ret = 0
          /\ last.symbol \notin FUTURES_SYMBOLS \cup FOREX_SYMBOLS => last.ret = 0
    /\ calculate_position_size("ES", 18000, 18000 - 80, InitialCapital) = 0
    /\ (last.op = "add_position" /\ last.size = 0) =>
          /\ last.ret = "False"
          /\ positions = <<>>

\* C11 witness: the size 0 computed for ES with 80 ticks of risk on 100000
\* dollars was handed to add_position, which refused it.
C11_Witness ==
    /\ last.op = "add_position"
    /\ last.symbol = "ES"
    /\ last.entry_price - last.stop_loss = 80
    /\ last.size = 0
    /\ last.ret = "False"
    /\ positions = <<>>

\* C12: the size returned by calculate_position_size commits at most 30% of the
\* balance passed in: size * margin_requirement for a future, size * entry
\* price (the notional) for a forex pair.
C12_CommitsAtMostThirtyPercent ==
    (last.op = "calculate_position_size" /\ last.account_balance >= 0) =>
        IF last.symbol \in FUTURES_SYMBOLS
        THEN last.ret * MarginRequirement(last.symbol) * 10
                 <= MulDivFloor(last.account_balance, 3, MoneyScale)
        ELSE last.ret <= MulDivFloor(last.account_balance, 3, 10) \div last.entry_price

\* C13: a position appears only by an accepted add_position for its symbol and
\* disappears only by close_position for its symbol; close_position for a symbol
\* with a position removes it and appends exactly one trade record, for that
\* symbol; close_position for a symbol without a position returns the empty
\* record and leaves positions, capital and trade history unchanged.
C13_SlotLifecycle ==
    [][ /\ \A s \in DOMAIN positions' \ DOMAIN positions :
              /\ last'.op = "add_position"
              /\ last'.symbol = s
              /\ last'.ret = "True"
        /\ \A s \in DOMAIN positions \ DOMAIN positions' :
              /\ last'.op = "close_position"
              /\ last'.symbol = s
        /\ (last'.op = "close_position" /\ last'.symbol \in DOMAIN positions) =>
              /\ last'.ret = "trade_record"
              /\ DOMAIN positions' = DOMAIN positions \ {last'.symbol}
              /\ Len(trade_history') = Len(trade_history) + 1
              /\ SubSeq(trade_history', 1, Len(trade_history)) = trade_history
              /\ trade_history'[Len(trade_history')].symbol = last'.symbol
        /\ (last'.op = "close_position" /\ last'.symbol \notin DOMAIN positions) =>
              /\ last'.ret = "{}"
              /\ UNCHANGED <<positions, current_capital, trade_history>>
      ]_vars

\* what the four boosts add for an analysis: manipulation phase, level within
\* 0.2%, discount or premium zone, a hidden-gap pattern present
BoostSum(analysis) ==
    (IF analysis.current_phase = "manipulation" THEN 20 ELSE 0)
      + (IF analysis.nearest_level.band # "far" THEN 15 ELSE 0)
      + (IF analysis.zone # "equilibrium" THEN 10 ELSE 0)
      + (IF \E i \in 1..Len(analysis.patterns) : analysis.patterns[i].is_hippo
         THEN 10 ELSE 0)

\* C14: every candidate signal of either engine, under every combination of
\* the four boosts, gets a confluence score in [0, 1] (0..100 hundredths).
C14_ConfluenceInUnitInterval ==
    last.op = "generate_signals" =>
        \A i \in 1..Len(last.candidates) :
            /\ last.candidates[i].confluence_score >= 0
            /\ last.candidates[i].confluence_score <= 100

\* C14 witness: all four boosts apply to a candidate whose strength plus boosts
\* exceeds 1, and its score is 1.
C14_Witness ==
    /\ last.op = "generate_signals"
    /\ ~ last.analysis.empty
    /\ BoostSum(last.analysis) = 55
    /\ \E i \in 1..Len(last.candidates) :
          /\ last.candidates[i].strength + 55 > 100
          /\ last.candidates[i].confluence_score = 100

\* signal x comes before signal y in the ranking: higher score, or equal score
\* and generated earlier
RanksBefore(x, y) ==
    \/ x.confluence_score > y.confluence_score
    \/ /\ x.confluence_score = y.confluence_score
       /\ x.generated < y.generated

\* C15: the list returned by generate_signals is made of candidates, in
\* non-increasing score order with equal scores in generation order, holds no
\* score below the threshold and at most max_daily_trades signals, and every
\* candidate at or above the threshold that it leaves out ranks after all the
\* signals of a full list.
C15_RankedFilteredTruncated ==
    last.op = "generate_signals" =>
        LET R == last.ret
            C == last.candidates
            InR(c) == \E i \in 1..Len(R) : R[i] = c
        IN  /\ \A i \in 1..Len(R) : \E k \in 1..Len(C) : C[k] = R[i]
            /\ \A i, j \in 1..Len(R) : i < j =>
                  /\ R[i].confluence_score >= R[j].confluence_score
                  /\ RanksBefore(R[i], R[j])
            /\ \A i \in 1..Len(R) : R[i].confluence_score >= last.threshold
            /\ Len(R) <= last.max_daily_trades
            /\ \A k \in 1..Len(C) :
                  (C[k].confluence_score >= last.threshold /\ ~ InR(C[k])) =>
                      /\ Len(R) = last.max_daily_trades
                      /\ \A i \in 1..Len(R) : RanksBefore(R[i], C[k])

\* C15 witness: the first signal returned was not the first generated, the
\* list is full, and a candidate at or above the threshold, of lower score,
\* was cut off.
C15_Witness ==
    /\ last.op = "generate_signals"
    /\ Len(last.ret) = last.max_daily_trades
    /\ last.ret[1].generated > 1
    /\ \E k \in 1..Len(last.candidates) :
          /\ \A i \in 1..Len(last.ret) : last.ret[i] # last.candidates[k]
          /\ last.candidates[k].confluence_score >= last.threshold
          /\ last.candidates[k].confluence_score < last.ret[1].confluence_score

C17_DealingRangeOrdered ==
    last.op = "calculate_dealing_range" =>
        /\ last.ret.range_low <= last.ret.discount_threshold
        /\ last.ret.discount_threshold <= last.ret.equilibrium
        /\ last.ret.equilibrium <= last.ret.premium_threshold
        /\ last.ret.premium_threshold <= last.ret.range_high

\* the levels of a level set, whatever their type
AllLevels(levels) ==
    UNION { {levels[t][pct] : pct \in DOMAIN levels[t]} : t \in DOMAIN levels }

\* C19: for range_high >= range_low the level set has exactly the percentages
\* 0, 11, 17, 29, 41, 50, 59, 71, 83, 89, 100, a level of higher percentage has
\* no lower price (a higher one when the range is not empty), the 0% level is
\* at range_low and the 100% level at range_high.
C19_LevelsMonotone ==
    (last.op = "calculate_goldbach_levels" /\ last.range_high >= last.range_low) =>
        LET L == AllLevels(last.ret)
        IN  /\ {l.percentage : l \in L} = {0, 11, 17, 29, 41, 50, 59, 71, 83, 89, 100}
            /\ Cardinality(L) = 11
            /\ \A x, y \in L :
                  x.percentage < y.percentage =>
                     /\ x.price100 <= y.price100
                     /\ last.range_high > last.range_low => x.price100 < y.price100
            /\ \A l \in L :
                  /\ l.percentage = 0 => l.price100 = 100 * last.range_low
                  /\ l.percentage = 100 => l.price100 = 100 * last.range_high

\* C19 witness: the levels of a range of size 27 above 10935 were computed, the
\* 11% level 2.97 above range_low.
C19_Witness ==
    /\ last.op = "calculate_goldbach_levels"
    /\ last.range_low = 10935
    /\ last.range_high = 10962
    /\ last.ret["order_block"][11].price100 = 1093500 + 297

\* the day's bars reach from midnight to the last hour and every session window
\* holds a bar strictly inside it
CoversFullDay(day_data) ==
    /\ Minutes(0, 0) \in day_data
    /\ Minutes(23, 0) \in day_data
    /\ \E t \in day_data : Minutes(5, 0) < t /\ t < Minutes(11, 0)
    /\ \E t \in day_data : Minutes(11, 0) < t /\ t < Minutes(20, 0)

\* C18: for a day whose bars cover the full day the three phases are pairwise
\* disjoint and their union is the day's bars, bars stamped exactly 05:00, 11:00
\* or 20:00 included.
C18_PhasesPartitionDay ==
    (last.op = "identify_daily_amd_cycle" /\ CoversFullDay(last.day_data)) =>
        /\ ~last.ret.empty
        /\ UNION { last.ret.data[phase] : phase \in Phases } = last.day_data
        /\ \A p, q \in Phases :
              p # q => last.ret.data[p] \cap last.ret.data[q] = {}

\* the return series of an equity history has zero variance: it has no two
\* different returns
ZeroVariance(equity) ==
    \A i, j \in 1..(Len(equity) - 1) :
        SameFraction(pct_change(equity)[i], pct_change(equity)[j])

\* C20: the Sharpe ratio of an equity history whose return series has zero
\* variance is 0, neither NaN nor infinite, a single entry and a constant
\* equity included.
C20_ZeroVarianceSharpeIsZero ==
    (last.op = "_calculate_performance_metrics" /\ ZeroVariance(last.equity)) =>
        last.sharpe_ratio = "zero"

\* C21: when the trade history holds no losing trade the profit factor reported
\* by get_performance_metrics is not a raw infinity.
C21_ProfitFactorNeverInfinite ==
    (/\ last.op = "get_performance_metrics"
     /\ trade_history # <<>>
     /\ \A i \in 1..Len(trade_history) : trade_history[i].realized_pnl >= 0) =>
        last.ret.profit_factor.kind # "inf"

\* C22: two runs of generate_signals over the same bars and the same
\* configuration return the same ranked signal list, whatever the wall-clock
\* times of the two runs.
C22_ReplayIsDeterministic ==
    last.op = "replay" => last.first = last.second

\* C23: the drawdown reported by get_portfolio_summary, which is the drawdown
\* check_risk_limits compares with the limit, is never negative, also after a
\* profitable close has lifted the capital above the initial capital.
C23_DrawdownNeverNegative ==
    last.op = "get_portfolio_summary" =>
        get_portfolio_summary(positions, current_capital,
                              trade_history).current_drawdown >= 0

\* the visits whose level lies within max_distance of the price
Eligible(current_price, levels, max_distance) ==
    { k \in 1..Len(IterationOrder) :
        \/ max_distance = NoMaxDistance
        \/ Visited(current_price, levels, k).distance <= max_distance }

\* C24: get_nearest_goldbach_level returns no level when none lies within
\* max_distance; otherwise a level of the set within max_distance whose distance
\* to the price is minimal among those, and of the levels at that distance the
\* first in iteration order.
C24_NearestIsMinimalFirstMatch ==
    last.op = "get_nearest_goldbach_level" =>
        LET E == Eligible(last.current_price, last.levels, last.max_distance)
        IN  IF E = {} THEN last.ret.none
            ELSE /\ ~last.ret.none
                 /\ last.ret.visit \in E
                 /\ last.ret = Visited(last.current_price, last.levels, last.ret.visit)
                 /\ \A k \in E :
                       LET other == Visited(last.current_price, last.levels, k)
                       IN  /\ last.ret.distance <= other.distance
                           /\ other.distance = last.ret.distance => last.ret.visit <= k

\* C24 witness: the price 86 lies 3 from the 89% order-block level and 3 from
\* the 83% fair-value-gap level of the range 0..100; the order-block level,
\* visited first, is returned.
C24_Witness ==
    /\ last.op = "get_nearest_goldbach_level"
    /\ last.current_price = 8600
    /\ last.max_distance = 300
    /\ last.ret.level_type = "order_block"
    /\ last.ret.percentage = 89
    /\ last.ret.distance = 300
    /\ last.levels["fair_value_gap"][83].price100 = 8300

\* C25: a window of three candles is a hidden-gap pattern exactly when both
\* gaps are present, both are at least 5 pips and the larger is at most 2.0
\* times the smaller; the pattern is bullish when both gaps are up, bearish
\* when both are down and a reversal when they differ, and only a pattern that
\* is not a reversal produces a signal.
C25_HiddenGapPattern ==
    last.op = "_analyze_hippo_pattern" =>
        LET size1 == Abs(last.move1)
            size2 == Abs(last.move2)
            qualifies == /\ last.move1 # 0 /\ last.move2 # 0
                         /\ size1 >= 50 /\ size2 >= 50
                         /\ Max(size1, size2) <= 2 * Min(size1, size2)
        IN  /\ last.pattern.is_hippo <=> qualifies
            /\ qualifies =>
                 /\ last.pattern.direction = "bullish"
                       <=> (last.move1 > 0 /\ last.move2 > 0)
                 /\ last.pattern.direction = "bearish"
                       <=> (last.move1 < 0 /\ last.move2 < 0)
                 /\ last.pattern.direction = "reversal"
                       <=> ((last.move1 > 0) # (last.move2 > 0))
            /\ Len(last.signals) = IF qualifies /\ last.pattern.direction # "reversal"
                                   THEN 1 ELSE 0
            /\ \A i \in 1..Len(last.signals) :
                  last.signals[i] = Signal("hippo_pattern", 70)

\* C25 witness: gaps of 6 pips up and 7 pips up gave a bullish continuation
\* pattern and one signal.
C25_Witness ==
    /\ last.op = "_analyze_hippo_pattern"
    /\ last.move1 = 60
    /\ last.move2 = 70
    /\ last.pattern.is_hippo
    /\ last.pattern.pattern_type = "bullish_continuation"
    /\ Len(last.signals) = 1

\* the snapshots of equity_history keyed by the timestamp t
SnapshotsAt(t) == { i \in 1..Len(equity_history) : equity_history[i].timestamp = t }

\* C26: the timestamps of the merged index are processed in increasing order,
\* and once a timestamp has been processed equity_history holds exactly one
\* snapshot keyed by it, so the timestamps of equity_history strictly increase.
C26_OneSnapshotPerTimestamp ==
    /\ \A i, j \in 1..Len(equity_history) :
          i < j => equity_history[i].timestamp < equity_history[j].timestamp
    /\ pc \in {"slice", "done"} =>
          \A t \in 1..ts : Cardinality(SnapshotsAt(t)) = 1

\* C26, amended: the timestamps of the merged index are processed in
\* increasing order; once a timestamp has been processed equity_history holds
\* exactly one snapshot keyed by it when some instrument had a usable window
\* there and none otherwise, and the timestamps of equity_history strictly
\* increase.
C26_OneSnapshotPerUsableTimestamp ==
    /\ \A i, j \in 1..Len(equity_history) :
          i < j => equity_history[i].timestamp < equity_history[j].timestamp
    /\ \A i \in 1..Len(equity_history) : equity_history[i].timestamp \in 1..ts
    /\ pc \in {"slice", "done"} =>
          \A t \in 1..ts :
             Cardinality(SnapshotsAt(t)) = IF CurrentData(t) # {} THEN 1 ELSE 0

\* C26 witness: the run is over; the first snapshot is keyed by the first
\* timestamp with a window of 20 bars and a later one follows it.
C26_Witness ==
    /\ pc = "done"
    /\ Len(equity_history) >= 2
    /\ equity_history[1].timestamp = MinBars
    /\ equity_history[2].timestamp = MinBars + 1
    /\ SnapshotsAt(1) = {}

\* C27: at every timestamp, when the positions have been managed and the
\* strategy has not yet been asked for signals, no position is open on an
\* instrument with a usable bar whose close is at or beyond its stop (LONG:
\* close <= stop, SHORT: close >= stop) or at or beyond its target (LONG:
\* close >= target, SHORT: close <= target).
C27_NoTriggeredPositionSurvives ==
    (pc = "manage" /\ todo = {}) =>
        \A s \in DOMAIN positions \cap current_data :
            /\ ~ StopHit(positions[s], close[s])
            /\ ~ TargetHit(positions[s], close[s])

\* C27 witness: management is over at a timestamp where one position was closed
\* by its stop away from its entry and another, marked at its bar, stays open.
C27_Witness ==
    /\ pc = "manage"
    /\ todo = {}
    /\ closed_now # {}
    /\ trade_log # <<>>
    /\ LET t == trade_log[Len(trade_log)]
       IN  /\ t.symbol \in closed_now
           /\ t.exit_reason = "STOP_LOSS"
           /\ t.exit_price # t.entry_price
    /\ \E s \in DOMAIN positions \cap current_data :
          positions[s].unrealized_pnl # 0

\* the excursions of an open position bracket 0 and its unrealized P&L
ExcursionsBracket(pos) ==
    /\ pos.max_adverse <= 0
    /\ 0 <= pos.max_favorable
    /\ pos.max_adverse <= pos.unrealized_pnl
    /\ pos.unrealized_pnl <= pos.max_favorable

\* C28: for every open position max_adverse <= 0 <= max_favorable and
\* max_adverse <= unrealized_pnl <= max_favorable; every trade record has
\* max_adverse <= realized_pnl <= max_favorable; and while a position stays
\* open its max_favorable never decreases and its max_adverse never increases.
C28_ExcursionsBracketPnl ==
    /\ [](/\ \A s \in DOMAIN positions : ExcursionsBracket(positions[s])
          /\ \A i \in 1..Len(trade_history) :
                /\ trade_history[i].max_adverse <= trade_history[i].realized_pnl
                /\ trade_history[i].realized_pnl <= trade_history[i].max_favorable)
    /\ [][ \A s \in DOMAIN positions \cap DOMAIN positions' :
              /\ positions'[s].max_favorable >= positions[s].max_favorable
              /\ positions'[s].max_adverse <= positions[s].max_adverse ]_vars

\* C28 witness: a position marked below and above its entry was closed at its
\* entry: the record holds max_adverse < realized_pnl = 0 < max_favorable.
C28_Witness ==
    /\ trade_history # <<>>
    /\ trade_history[1].max_adverse < 0
    /\ trade_history[1].realized_pnl = 0
    /\ trade_history[1].max_favorable > 0

\* C29: every signal that execute_strategy hands to the backtest loop has all
\* required fields, a direction of LONG or SHORT and a confidence in [0, 1],
\* and every position the loop has opened is LONG or SHORT, so that its stop
\* check fires at some price.
C29_OnlyLongOrShortPositions ==
    /\ \A i \in 1..Len(signals) :
          /\ signals[i].missing = {}
          /\ signals[i].direction \in {"LONG", "SHORT"}
          /\ 0 <= signals[i].confidence /\ signals[i].confidence <= 10
    /\ \A s \in DOMAIN positions :
          /\ positions[s].direction \in {"LONG", "SHORT"}
          /\ check_stop_loss(positions, s, positions[s].stop_loss)

\* C29 witness: the loop has opened a SHORT position on ES and a LONG position
\* on EURUSD and still holds a valid signal to process.
C29_Witness ==
    /\ pc = "signals"
    /\ signals # <<>>
    /\ DOMAIN positions = {"ES", "EURUSD"}
    /\ positions["ES"].direction = "SHORT"
    /\ positions["EURUSD"].direction = "LONG"

\* C30: during a timestamp at which an instrument has no usable window (no bar
\* there, or fewer than 20 bars so far) the position on that instrument stays
\* as it is (not marked, not closed) and none is opened on it; during a
\* timestamp at which no instrument has a usable window the positions, the
\* capital, the trade history and the trade log all stay as they are.
C30_NoBarNoChange ==
    [][ /\ \A s \in BTSymbols \ current_data' :
              /\ (s \in DOMAIN positions) = (s \in DOMAIN positions')
              /\ s \in DOMAIN positions => positions'[s] = positions[s]
        /\ current_data' = {} =>
              /\ positions' = positions
              /\ current_capital' = current_capital
              /\ trade_history' = trade_history
              /\ trade_log' = trade_log ]_vars

\* C30 witness: at the timestamp after the first usable one a position is
\* open, untouched since its entry, on an instrument without a bar there, while
\* the position on the other instrument was closed at this timestamp.
C30_Witness ==
    /\ ts = MinBars + 1
    /\ pc = "signals"
    /\ current_data # {}
    /\ closed_now # {}
    /\ \E s \in DOMAIN positions :
          /\ s \notin current_data
          /\ positions[s].unrealized_pnl = 0
          /\ positions[s].max_favorable = 0
          /\ positions[s].max_adverse = 0

=============================================================================
